---- MODULE Spec2Model ----
(***************************************************************************)
(* A model of the riverbed terrain generator of chapter_05:                *)
(*   model/utils/curve_generator.py   CurveGenerator                       *)
(*   model/riverbed_generator.py      RiverbedGenerator                    *)
(*   model/water_generator.py         WaterGenerator                       *)
(*   scene/rocky_river_terrain.py     RockyRiverTerrain                    *)
(*                                                                         *)
(* Numbers.  The program computes in floating point; the model computes in *)
(* fixed point.  A length l is the integer l * Unit, an elevation e is the *)
(* integer e * ZUnit, and a quotient is rounded to the nearest integer     *)
(* (RoundDiv).  A vertex index i of the host mesh (0-based) is the number  *)
(* i + 1 here, so that vertex tables are sequences.                        *)
(***************************************************************************)
EXTENDS Integers, Sequences, FiniteSets, TLC

VARIABLES
    (* RiverbedGenerator's fields (riverbed_generator.py:21-33) *)
    plane,               \* TRUE once self.plane holds a terrain grid
    plane_width,
    plane_length,
    plane_subdivisions,  \* <<x_subdivisions, y_subdivisions>>
    left_waterline,      \* sequence of <<x, y>>
    right_waterline,
    riverbed_indices,    \* sequence of vertex numbers (a Python list)
    riverbank_indices,
    (* the host's terrain mesh *)
    z,                   \* z[v]: elevation of vertex v of self.plane
    selected,            \* the vertices of self.plane whose select flag is set
    plane_id,            \* which grid object self.plane is (grows per create)
    (* the running sculpting handler *)
    pc,                  \* "idle" or the name of the running pass
    todo,                \* the targets the running loop has still to visit
    call,                \* the running handler's arguments
    last_op,             \* the last transform.translate call issued to the host
    calls,               \* number of handler calls made so far
    last_call,           \* the handler that ran last
    (* WaterGenerator's fields (water_generator.py:18-24) and its mesh *)
    water_plane,         \* TRUE once self.water_plane holds a grid
    water_width,
    water_length,
    water_subdivisions,
    water_left_waterline,
    water_right_waterline,
    water_verts,         \* the <<x, y>> of the water mesh's vertices, by index
    (* RockyRiverTerrain (rocky_river_terrain.py) *)
    scene_pc,            \* the call the scene makes next
    rocks,               \* self.rocks: the location of each rock, in order
    index_uses,          \* the uses of a vertex index list made so far
    index_stamp,         \* the grid the two index lists were computed on
    grid_version,        \* how often each grid's vertex set was replaced
    (* CurveGenerator.interpolate_bezier applied to a drawn control set *)
    bz_input,
    bz_output,
    bz_done,
    (* CurveGenerator.interpolate_bspline applied to the same control set *)
    bs_output,
    bs_done,
    (* DomeHdriGenerator's fields (dome_with_hdri_and_sun_generator.py:30-36),
       its host objects and the position of create() *)
    hdri_radius,         \* self.radius
    hdri_file,           \* the image file at self.hdri_path, NoFile if absent
    hdri_image,          \* self.hdri_image: NoImage or the loaded image
    dome_object,         \* TRUE once self.dome_object holds the sphere
    dome_colour,         \* what feeds the emission colour of the dome
    brightest,           \* what find_brightest_point_in_hdri returned
    brightest_3d,        \* what convert_hdri_uv_to_3d returned
    sun,                 \* the sun light added, NoSun if none
    dome_pc,             \* the step create() makes next
    dome_raised,         \* the exception that left create(), "none" if none
    (* what the caller of RiverbedGenerator passes and is told *)
    depth_args,          \* min_pit_depth and max_pit_depth given to dig_riverbed
    message,             \* the [WARNING] or [ERROR] line the last handler
                         \* printed, "none" if it printed none
    (* the host's editing state (bpy.context) *)
    host_mode,           \* "OBJECT" or "EDIT"
    proportional_edit_falloff,  \* scene.tool_settings.proportional_edit_falloff
    (* Animation (chapter_06 animation.py): the F-curves of self.obj's action *)
    fcurves,             \* sequence of [data_path, keyframe_points]
    anim_call,           \* the arguments of the last set_interpolation call
    (* CurveGenerator.create_deviations called on its own *)
    dev_call             \* its subdivisions[1], num_deviations and result

terrain_vars == <<plane, plane_width, plane_length, plane_subdivisions,
                  left_waterline, right_waterline, riverbed_indices,
                  riverbank_indices, z, selected, plane_id>>
loop_vars == <<pc, todo, call, last_op>>
water_vars == <<water_plane, water_width, water_length, water_subdivisions,
                water_left_waterline, water_right_waterline, water_verts>>
bezier_vars == <<bz_input, bz_output, bz_done, bs_output, bs_done>>
scene_vars == <<scene_pc, rocks, index_uses, index_stamp, grid_version>>
hdri_vars == <<hdri_radius, hdri_file, hdri_image, dome_object, dome_colour,
               brightest, brightest_3d, sun, dome_pc, dome_raised>>
report_vars == <<depth_args, message>>
host_vars == <<host_mode, proportional_edit_falloff>>
anim_vars == <<fcurves, anim_call>>
vars == <<terrain_vars, loop_vars, calls, last_call, water_vars, bezier_vars,
          scene_vars, hdri_vars, report_vars, host_vars, anim_vars, dev_call>>

---------------------------------------------------------------------------
(* Bounds of the model *)

\* fixed-point resolution of lengths: units per 1.0
Unit == 10
\* fixed-point resolution of elevations: units per 1.0
ZUnit == 100
\* subdivisions[1] of the RiverbedGenerator's CurveGenerator (18 in the
\* program, riverbed_generator.py:38)
CurveSubdivY == 1
\* num_deviations of the left and right curve (14 and 28 in the program,
\* riverbed_generator.py:82,84; the right one exceeds the number of points)
NumLeftDeviations == 2
NumRightDeviations == 4
\* the number of handler calls one run of the model makes at most
MaxCalls == 3
\* the longest control set interpolate_bezier is applied to on its own
MaxControlPoints == 4
\* the longest control set interpolate_bspline is applied to, and the most
\* points of it that deviate (subdivisions[1] + 2 and num_deviations of
\* create_bspline_curve)
MaxSplinePoints == 6
MaxSplineDeviations == 2

---------------------------------------------------------------------------
(* Arithmetic *)

Abs(a) == IF a < 0 THEN -a ELSE a

\* a / b rounded to the nearest integer, b > 0
RoundDiv(a, b) == (a + (b \div 2)) \div b

RECURSIVE Pow(_, _)
Pow(a, n) == IF n = 0 THEN 1 ELSE a * Pow(a, n - 1)

\* scipy.special.comb(n, j)
RECURSIVE binomial_coefficient(_, _)
binomial_coefficient(n, j) ==
    IF j = 0 \/ j = n THEN 1
    ELSE binomial_coefficient(n - 1, j - 1) + binomial_coefficient(n - 1, j)

\* np.linspace(lo, hi, n)[i - 1]
Linspace(lo, hi, n, i) == lo + RoundDiv((hi - lo) * (i - 1), n - 1)

RECURSIVE Sum(_, _, _)
\* f[lo] + ... + f[hi]
Sum(f, lo, hi) == IF lo > hi THEN 0 ELSE f[lo] + Sum(f, lo + 1, hi)

---------------------------------------------------------------------------
(* CurveGenerator (curve_generator.py) *)

\* CurveGenerator(width=10, length=20, ...) of riverbed_generator.py:38
CurveWidth == 10
CurveLength == 20

PX(p) == p[1]
PY(p) == p[2]

\* the y-values create_deviations lays out for num_points points
DeviationY(num_points, i) ==
    Linspace(-((CurveLength * Unit) \div 2), (CurveLength * Unit) \div 2,
             num_points, i)

\* random.uniform(a, b): the model draws the two ends of the range
Uniform(a, b) == {a, b}

\* the x a deviating point may get: a coin flip between the two ranges
DeviationX ==
    Uniform(-((CurveWidth * Unit) \div 4), -((CurveWidth * Unit) \div 10))
    \cup Uniform((CurveWidth * Unit) \div 10, (CurveWidth * Unit) \div 4)

\* create_deviations that samples num_deviations + 1 indices (line 44)
create_deviations_one_more(num_points, num_deviations, X) ==
    LET k == IF num_deviations + 1 > num_points THEN num_points
             ELSE num_deviations + 1
        samples == {S \in SUBSET (1..num_points) : Cardinality(S) = k}
    IN  UNION { { [i \in 1..num_points |->
                     <<IF i \in S THEN xs[i] ELSE 0,
                       DeviationY(num_points, i)>>] :
                  xs \in [S -> X] } : S \in samples }

\* create_deviations(num_deviations): every list it may return when the
\* random x of a deviating point is drawn from X
create_deviations(num_points, num_deviations, X) ==
    LET k == IF num_deviations > num_points THEN num_points
             ELSE num_deviations
        samples == {S \in SUBSET (1..num_points) : Cardinality(S) = k}
    IN  UNION { { [i \in 1..num_points |->
                     <<IF i \in S THEN xs[i] ELSE 0,
                       DeviationY(num_points, i)>>] :
                  xs \in [S -> X] } : S \in samples }

\* the Bezier sample i (1..m) of the control points cp, as numerators over
\* the common denominator (m - 1)^n, n = Len(cp) - 1
BezierNumerator(cp, m, i, coord) ==
    LET n == Len(cp) - 1
        term == [j \in 0..n |->
                    binomial_coefficient(n, j) * Pow(m - i, n - j)
                    * Pow(i - 1, j) * cp[j + 1][coord]]
    IN  Sum(term, 0, n)

\* np.interp(y, ys, xs) for increasing ys; ys and xs are numerators over den,
\* the result is a fixed-point length
NpInterp(y, ys, xs, den) ==
    LET m == Len(ys)
        yd == y * den
    IN  IF yd <= ys[1] THEN RoundDiv(xs[1], den)
        ELSE IF yd >= ys[m] THEN RoundDiv(xs[m], den)
        ELSE LET k == CHOOSE k \in 1..(m - 1) : ys[k] <= yd /\ yd < ys[k + 1]
                 dy == ys[k + 1] - ys[k]
             IN  RoundDiv(xs[k] * dy + (xs[k + 1] - xs[k]) * (yd - ys[k]),
                          dy * den)

\* interpolate_bezier returning the Bezier samples themselves, without the
\* re-parameterization of lines 69-74
interpolate_bezier_samples(input_list) ==
    LET control_points == SelectSeq(input_list, LAMBDA p : PX(p) # 0)
        m == Len(input_list)
    IN  IF Len(control_points) < 2 THEN input_list
        ELSE LET den == Pow(m - 1, Len(control_points) - 1)
             IN  [i \in 1..m |->
                    <<RoundDiv(BezierNumerator(control_points, m, i, 1), den),
                      RoundDiv(BezierNumerator(control_points, m, i, 2), den)>>]

interpolate_bezier(input_list) ==
    LET control_points == SelectSeq(input_list, LAMBDA p : PX(p) # 0)
        m == Len(input_list)
    IN  IF Len(control_points) < 2 THEN input_list
        ELSE LET den == Pow(m - 1, Len(control_points) - 1)
                 cx == [i \in 1..m |-> BezierNumerator(control_points, m, i, 1)]
                 cy == [i \in 1..m |-> BezierNumerator(control_points, m, i, 2)]
             IN  [i \in 1..m |->
                    <<NpInterp(PY(input_list[i]), cy, cx, den),
                      PY(input_list[i])>>]

\* create_bezier_curve(num_deviations): every curve it may return
create_bezier_curve(num_points, num_deviations, X) ==
    { interpolate_bezier(d) :
        d \in create_deviations(num_points, num_deviations, X) }

---------------------------------------------------------------------------
(* CurveGenerator.interpolate_bspline (curve_generator.py:79-106) *)

RECURSIVE Prod(_, _, _)
\* f[lo] * ... * f[hi]
Prod(f, lo, hi) == IF lo > hi THEN 1 ELSE f[lo] * Prod(f, lo + 1, hi)

RECURSIVE FirstOccurrencesFrom(_, _)
FirstOccurrencesFrom(ys, i) ==
    IF i > Len(ys) THEN <<>>
    ELSE (IF \E j \in 1..(i - 1) : ys[j] = ys[i] THEN <<>> ELSE <<i>>)
         \o FirstOccurrencesFrom(ys, i + 1)

\* np.sort(np.unique(x_full, return_index=True)[1]) (lines 93-95): the
\* index of the first occurrence of every value, in increasing order
unique_indices(x_full) == FirstOccurrencesFrom(x_full, 1)

\* Abscissae.  The y-values of a control set are np.linspace values, an
\* affine function of the index, and the interpolant of interp1d does not
\* change under an affine change of abscissa: the model interpolates over
\* the index of the first input point that has the y-value.
YIndex(input_list, y) ==
    CHOOSE i \in 1..Len(input_list) :
        /\ PY(input_list[i]) = y
        /\ \A j \in 1..(i - 1) : PY(input_list[j]) # y

\* the product of the differences of the knots ts, a positive number for
\* increasing knots
Vandermonde(ts) ==
    LET n == Len(ts)
        row == [i \in 1..n |->
                  Prod([j \in 1..n |-> IF j > i THEN ts[j] - ts[i] ELSE 1],
                       1, n)]
    IN  Prod(row, 1, n)

\* the polynomial of degree Len(ts) - 1 through the points (ts[k], vs[k]),
\* at p, as a numerator over Vandermonde(ts)
LagrangeNum(ts, vs, p) ==
    LET n == Len(ts)
        V == Vandermonde(ts)
        absd == [k \in 1..n |->
                   Prod([j \in 1..n |-> IF j = k THEN 1 ELSE Abs(ts[k] - ts[j])],
                        1, n)]
        sign == [k \in 1..n |-> IF (n - k) % 2 = 0 THEN 1 ELSE -1]
        term == [k \in 1..n |->
                   vs[k] * sign[k] * (V \div absd[k])
                   * Prod([j \in 1..n |-> IF j = k THEN 1 ELSE p - ts[j]],
                          1, n)]
    IN  Sum(term, 1, n)

\* interp1d(kind='linear') at p, first knot <= p <= last knot, as
\* <<numerator, denominator>>
LinearAt(ts, vs, p) ==
    IF p = ts[Len(ts)] THEN <<vs[Len(ts)], 1>>
    ELSE LET k == CHOOSE k \in 1..(Len(ts) - 1) : ts[k] <= p /\ p < ts[k + 1]
         IN  <<vs[k] * (ts[k + 1] - p) + vs[k + 1] * (p - ts[k]),
               ts[k + 1] - ts[k]>>

\* interp1d(kind='cubic') at p, as <<numerator, denominator>>: the
\* not-a-knot cubic spline of make_interp_spline.  With 4 knots it is the
\* cubic through the 4 points.  With 5 knots it is a cubic on each side of
\* the middle knot, the two agreeing there up to the second derivative:
\*   S(p) = L(p) + a * w(p)                     for p <= ts[3]
\*   S(p) = L(p) + a * w(p) + c * (p - ts[3])^3  for p >= ts[3]
\* with L the parabola through the first three points and
\* w(p) = (p - ts[1])(p - ts[2])(p - ts[3]); a and c make S pass through
\* the last two points.
CubicAt(ts, vs, p) ==
    CASE Len(ts) = 4 -> <<LagrangeNum(ts, vs, p), Vandermonde(ts)>>
      [] Len(ts) = 5 ->
            LET t3 == SubSeq(ts, 1, 3)
                v3 == SubSeq(vs, 1, 3)
                DL == Vandermonde(t3)
                w(q) == (q - ts[1]) * (q - ts[2]) * (q - ts[3])
                d(q) == Pow(q - ts[3], 3)
                R(k) == vs[k] * DL - LagrangeNum(t3, v3, ts[k])
                D == w(ts[4]) * d(ts[5]) - w(ts[5]) * d(ts[4])
                A == R(4) * d(ts[5]) - R(5) * d(ts[4])
                C == w(ts[4]) * R(5) - w(ts[5]) * R(4)
                num == LagrangeNum(t3, v3, p) * D + A * w(p)
                       + (IF p > ts[3] THEN C * d(p) ELSE 0)
            IN  IF D > 0 THEN <<num, DL * D>> ELSE <<-num, -(DL * D)>>

\* np.clip(y_new, min_x, max_x) (lines 102-104) of the value num / den,
\* den > 0, rounded to a fixed-point length
Clip(frac, min_x, max_x) ==
    IF frac[1] > max_x * frac[2] THEN max_x
    ELSE IF frac[1] < min_x * frac[2] THEN min_x
    ELSE RoundDiv(frac[1], frac[2])

\* the fit of lines 87-106; with clipped false, the evaluation of line 100
\* without the clipping of lines 102-104
bspline_fit(input_list, non_zero_points, clipped) ==
    LET m == Len(input_list)
        n == Len(non_zero_points)
        x_full == <<PY(input_list[1])>>
                  \o [k \in 1..n |-> PY(non_zero_points[k])]
                  \o <<PY(input_list[m])>>
        y_full == <<0>> \o [k \in 1..n |-> PX(non_zero_points[k])] \o <<0>>
        idx == unique_indices(x_full)
        x_unique == [k \in 1..Len(idx) |-> YIndex(input_list, x_full[idx[k]])]
        y_unique == [k \in 1..Len(idx) |-> y_full[idx[k]]]
        max_x == (3 * CurveWidth * Unit) \div 4
        f(p) == IF Len(x_unique) >= 4 THEN CubicAt(x_unique, y_unique, p)
                ELSE LinearAt(x_unique, y_unique, p)
        clip(frac) == IF clipped THEN Clip(frac, -max_x, max_x)
                      ELSE RoundDiv(frac[1], frac[2])
    IN  [i \in 1..m |->
           <<clip(f(YIndex(input_list, PY(input_list[i])))),
             PY(input_list[i])>>]

\* interpolate_bspline that fits also a control set of fewer than 2 points
\* of nonzero x
interpolate_bspline_always(input_list) ==
    bspline_fit(input_list, SelectSeq(input_list, LAMBDA p : PX(p) # 0), TRUE)

\* interpolate_bspline that returns the interpolant without clipping it
interpolate_bspline_unclipped(input_list) ==
    LET non_zero_points == SelectSeq(input_list, LAMBDA p : PX(p) # 0)
    IN  IF Len(non_zero_points) < 2 THEN input_list
        ELSE bspline_fit(input_list, non_zero_points, FALSE)

interpolate_bspline(input_list) ==
    LET non_zero_points == SelectSeq(input_list, LAMBDA p : PX(p) # 0)
    IN  IF Len(non_zero_points) < 2 THEN input_list
        ELSE bspline_fit(input_list, non_zero_points, TRUE)

\* create_bspline_curve(num_deviations): every curve it may return
create_bspline_curve(num_points, num_deviations, X) ==
    { interpolate_bspline(d) :
        d \in create_deviations(num_points, num_deviations, X) }

---------------------------------------------------------------------------
(* The host's grid mesh (bpy.ops.mesh.primitive_grid_add, scaled) *)

GridCols(subdivisions) == subdivisions[1] + 1
GridRows(subdivisions) == subdivisions[2] + 1
GridCount(subdivisions) == GridCols(subdivisions) * GridRows(subdivisions)

\* vertex v (1-based) sits in column Col and row Row, index = row*cols + col
Col(v, subdivisions) == (v - 1) % GridCols(subdivisions)
Row(v, subdivisions) == (v - 1) \div GridCols(subdivisions)

\* the vertex positions of a size-1 grid scaled to width x length
GridX(v, width, subdivisions) ==
    Linspace(-((width * Unit) \div 2), (width * Unit) \div 2,
             GridCols(subdivisions), Col(v, subdivisions) + 1)
GridY(v, length, subdivisions) ==
    Linspace(-((length * Unit) \div 2), (length * Unit) \div 2,
             GridRows(subdivisions), Row(v, subdivisions) + 1)

\* BMVert.is_boundary on a grid: the outer ring
IsBoundary(v, subdivisions) ==
    \/ Col(v, subdivisions) \in {0, GridCols(subdivisions) - 1}
    \/ Row(v, subdivisions) \in {0, GridRows(subdivisions) - 1}

\* the sequence lo, lo+1, ..., hi
Range(lo, hi) == [i \in 1..(hi - lo + 1) |-> lo + i - 1]

---------------------------------------------------------------------------
(* Nearest-y lookup and classification (riverbed_generator.py:92-109) *)

\* the last index of the minimum
ArgMinYLast(path, y) ==
    CHOOSE i \in 1..Len(path) :
        /\ \A j \in 1..Len(path) : Abs(PY(path[i]) - y) <= Abs(PY(path[j]) - y)
        /\ \A j \in (i + 1)..Len(path) :
               Abs(PY(path[j]) - y) > Abs(PY(path[i]) - y)

\* np.argmin(np.abs(path[:, 1] - y)): the first index of the minimum
ArgMinY(path, y) ==
    CHOOSE i \in 1..Len(path) :
        /\ \A j \in 1..Len(path) : Abs(PY(path[i]) - y) <= Abs(PY(path[j]) - y)
        /\ \A j \in 1..(i - 1) : Abs(PY(path[j]) - y) > Abs(PY(path[i]) - y)

\* the x of the waterline sample nearest in y
BoundaryX(path, y) == PX(path[ArgMinY(path, y)])

\* line 106 with the bounds included
InRiverbedInclusive(x, left_x, right_x) == left_x <= x /\ x <= right_x

\* line 106: riverbed_left_x < vert.co.x < riverbed_right_x
InRiverbed(x, left_x, right_x) == left_x < x /\ x < right_x

\* line 108 without the else: every vertex is appended to riverbank_indices
InRiverbankAlways(x, left_x, right_x) == TRUE

\* line 108: the else branch
InRiverbank(x, left_x, right_x) == ~InRiverbed(x, left_x, right_x)

\* the shift applied towards the other side
ShiftCurveMirrored(curve, dx) ==
    [i \in 1..Len(curve) |-> <<PX(curve[i]) - dx, PY(curve[i])>>]

\* the waterlines of lines 83 and 85: the curve shifted by 0.25 * plane_width
ShiftCurve(curve, dx) == [i \in 1..Len(curve) |-> <<PX(curve[i]) + dx, PY(curve[i])>>]

---------------------------------------------------------------------------
(* The state after RiverbedGenerator() and WaterGenerator() *)

\* DomeHdriGenerator: no file at the path, self.hdri_image = None, nothing
\* returned yet, no light added
NoFile == [width |-> 0, height |-> 0, pixels |-> <<>>]
NoImage == [width |-> -1, height |-> -1, pixels |-> <<>>]
NoResult == <<>>
NoSun == [location |-> <<>>, energy |-> 0]

\* no sculpting pass has been called, no vertex has been translated
NoCall == [kind |-> "__init__", targets |-> <<>>, draws |-> <<>>, radius |-> 0,
           start_z |-> <<>>, after |-> "__init__", after_radius |-> 0,
           in_order |-> TRUE, original_falloff |-> "SMOOTH"]
NoOp == [target |-> 0, delta |-> 0, radius |-> 0]

InitTerrain ==
    /\ plane = FALSE
    /\ plane_width = 0
    /\ plane_length = 0
    /\ plane_subdivisions = <<0, 0>>
    /\ left_waterline = <<>>
    /\ right_waterline = <<>>
    /\ riverbed_indices = <<>>
    /\ riverbank_indices = <<>>
    /\ z = <<>>
    /\ selected = {}
    /\ plane_id = 0

InitLoop ==
    /\ pc = "idle"
    /\ todo = <<>>
    /\ call = NoCall
    /\ last_op = NoOp

InitWater ==
    /\ water_plane = FALSE
    /\ water_width = 0
    /\ water_length = 0
    /\ water_subdivisions = <<1, 1>>
    /\ water_left_waterline = <<>>
    /\ water_right_waterline = <<>>
    /\ water_verts = <<>>

InitBezier ==
    /\ bz_input = <<>>
    /\ bz_output = <<>>
    /\ bz_done = FALSE
    /\ bs_output = <<>>
    /\ bs_done = FALSE

\* RockyRiverTerrain.__init__ (lines 13-22): no rocks, nothing called yet
InitScene ==
    /\ scene_pc = "create_terrain"
    /\ rocks = <<>>
    /\ index_uses = {}
    /\ index_stamp = [grid |-> "none", version |-> 0]
    /\ grid_version = [terrain |-> 0, water |-> 0, trims |-> 0]

\* min_pit_depth = 0.2 and max_pit_depth = 0.5, max_riverbank_height = 0.2
\* (create_riverbed, lines 283-284), in elevation units
MinPitDepth == RoundDiv(2 * ZUnit, 10)
MaxPitDepth == ZUnit \div 2
MaxRiverbankHeight == RoundDiv(2 * ZUnit, 10)

\* the caller passes the depths of create_riverbed; nothing was printed
InitReport ==
    /\ depth_args = [min |-> MinPitDepth, max |-> MaxPitDepth]
    /\ message = "none"

\* the host after start-up: Object Mode and the default falloff
InitHost ==
    /\ host_mode = "OBJECT"
    /\ proportional_edit_falloff = "SMOOTH"

\* Animation.__init__ (animation.py lines 5-10): an object without an action
\* keyframe_indices = None is [given |-> FALSE, indices |-> {}]
NoIndices == [given |-> FALSE, indices |-> {}]
NoAnimCall == [data_path |-> "", interpolation_type |-> "",
               keyframe_indices |-> NoIndices, before |-> <<>>]
InitAnim ==
    /\ fcurves = <<>>
    /\ anim_call = NoAnimCall

\* create_deviations has not been called on its own
NoDevCall == [subdivisions_y |-> 0, num_deviations |-> 0, points |-> <<>>]
InitDev == dev_call = NoDevCall

\* DomeHdriGenerator.__init__ (lines 22-36) with the default radius; no
\* file is looked at before create() runs
InitHdri ==
    /\ hdri_radius = 100
    /\ hdri_file = NoFile
    /\ hdri_image = NoImage
    /\ dome_object = FALSE
    /\ dome_colour = "none"
    /\ brightest = NoResult
    /\ brightest_3d = NoResult
    /\ sun = NoSun
    /\ dome_pc = "create"
    /\ dome_raised = "none"

Init ==
    /\ InitTerrain
    /\ InitLoop
    /\ InitWater
    /\ InitBezier
    /\ InitScene
    /\ InitHdri
    /\ InitReport
    /\ InitHost
    /\ InitAnim
    /\ InitDev
    /\ calls = 0
    /\ last_call = "__init__"

---------------------------------------------------------------------------
(* RiverbedGenerator.create_terrain and select_riverbed_vertices *)

\* the (plane_width, plane_length, subdivisions) the model passes
TerrainConfigs ==
    { [width |-> 10, length |-> 20, subdivisions |-> <<2, 2>>],
      [width |-> 10, length |-> 10, subdivisions |-> <<4, 2>>],
      [width |-> 2, length |-> 2, subdivisions |-> <<2, 2>>] }

\* create_terrain (lines 44-63): a new flat grid, all of it selected
create_terrain(cfg) ==
    /\ plane_width' = cfg.width
    /\ plane_length' = cfg.length
    /\ plane_subdivisions' = cfg.subdivisions
    /\ plane' = TRUE
    /\ plane_id' = plane_id + 1
    /\ z' = [v \in 1..GridCount(cfg.subdivisions) |-> 0]
    /\ selected' = 1..GridCount(cfg.subdivisions)
    /\ UNCHANGED <<left_waterline, right_waterline, riverbed_indices,
                   riverbank_indices>>

VertX(v) == GridX(v, plane_width, plane_subdivisions)
VertY(v) == GridY(v, plane_length, plane_subdivisions)

\* the vertices the loop of lines 92-109 appends to riverbed_indices
BedOf(left, right) ==
    SelectSeq(Range(1, Len(z)),
              LAMBDA v : InRiverbed(VertX(v), BoundaryX(left, VertY(v)),
                                    BoundaryX(right, VertY(v))))

\* the vertices the loop of lines 92-109 appends to riverbank_indices
BankOf(left, right) ==
    SelectSeq(Range(1, Len(z)),
              LAMBDA v : InRiverbank(VertX(v), BoundaryX(left, VertY(v)),
                                     BoundaryX(right, VertY(v))))

\* select_riverbed_vertices (lines 66-116) when the two Bezier curves drawn
\* are curve_left and curve_right
select_riverbed_vertices(curve_left, curve_right) ==
    IF ~plane
    THEN /\ message' = "[ERROR] Terrain plane not found."
         /\ UNCHANGED terrain_vars
    ELSE LET left == ShiftCurve(curve_left, -RoundDiv(plane_width * Unit, 4))
             right == ShiftCurve(curve_right, RoundDiv(plane_width * Unit, 4))
             bed == riverbed_indices \o BedOf(left, right)
         IN  /\ left_waterline' = left
             /\ right_waterline' = right
             /\ riverbed_indices' = bed
             /\ riverbank_indices' = riverbank_indices \o BankOf(left, right)
             \* lines 112-116
             /\ message' = IF bed = <<>>
                           THEN "[WARNING] No vertices were selected for the riverbed."
                           ELSE "none"
             /\ UNCHANGED <<plane, plane_width, plane_length,
                            plane_subdivisions, z, selected, plane_id>>

NumPoints == CurveSubdivY + 2

\* the x the lifecycle specifications draw for a deviating point: the outer
\* end of each of the two ranges
DrawnX == {-((CurveWidth * Unit) \div 4), (CurveWidth * Unit) \div 4}

\* create_bezier_curve(num_deviations=14) and (num_deviations=28), lines 82, 84
LeftCurves == create_bezier_curve(NumPoints, NumLeftDeviations, DrawnX)
RightCurves == create_bezier_curve(NumPoints, NumRightDeviations, DrawnX)

---------------------------------------------------------------------------
(* WaterGenerator.create_water_plane and delete_vertices_beyond_waterlines *)

\* create_water_plane (lines 42-65), the part of create_water that makes the
\* mesh: the first call fixes the subdivisions and the extents
create_water_plane(scale, subdivisions) ==
    LET sub == IF water_subdivisions = <<1, 1>> THEN subdivisions
               ELSE water_subdivisions
        first == water_width = 0 /\ water_length = 0
        w == IF first THEN scale[1] ELSE water_width
        l == IF first THEN scale[2] ELSE water_length
    IN  /\ water_subdivisions' = sub
        /\ water_width' = w
        /\ water_length' = l
        /\ water_plane' = TRUE
        /\ water_verts' = [v \in 1..GridCount(sub) |->
                              <<GridX(v, w, sub), GridY(v, l, sub)>>]
        /\ UNCHANGED <<water_left_waterline, water_right_waterline>>

\* line 184 testing the left waterline only
IsOutlierLeftOnly(x, left_x, right_x) == x < left_x

\* line 184: vert.co.x < water_plane_left_x or vert.co.x > water_plane_right_x
IsOutlier(x, left_x, right_x) == x < left_x \/ x > right_x

\* the vertices lines 170-194 leave in the mesh
Trimmed(verts, left, right) ==
    SelectSeq(verts,
              LAMBDA p : ~IsOutlier(PX(p), BoundaryX(left, PY(p)),
                                    BoundaryX(right, PY(p))))

\* lines 151-155: the waterlines the handler works with
StoredWaterline(given_left, given_right, stored, given) ==
    IF Len(given_left) > 0 /\ Len(given_right) > 0 THEN given ELSE stored

\* delete_vertices_beyond_waterlines (lines 149-203).  Without a water plane
\* line 163 raises; with an empty stored waterline line 175 raises on the
\* first vertex: both leave the mesh as it is
delete_vertices_beyond_waterlines(left, right) ==
    LET l == StoredWaterline(left, right, water_left_waterline, left)
        r == StoredWaterline(left, right, water_right_waterline, right)
    IN  /\ water_left_waterline' = l
        /\ water_right_waterline' = r
        /\ water_verts' =
              IF ~water_plane THEN water_verts
              ELSE IF Len(water_verts) = 0 THEN water_verts
              ELSE IF Len(l) = 0 \/ Len(r) = 0 THEN water_verts
              ELSE Trimmed(water_verts, l, r)
        \* line 155
        /\ message' = IF Len(left) > 0 /\ Len(right) > 0 THEN "none"
                      ELSE "[ERROR] left_waterline and right_waterline cannot be empty list."
        \* line 161
        /\ host_mode' = "OBJECT"
        /\ UNCHANGED <<water_plane, water_width, water_length,
                       water_subdivisions, proportional_edit_falloff>>

---------------------------------------------------------------------------
(* Spec: one RiverbedGenerator and one WaterGenerator, the terrain made and
   classified once, the water plane made and trimmed any number of times *)

CreateTerrain ==
    /\ ~plane
    /\ \E cfg \in TerrainConfigs : create_terrain(cfg)
    /\ last_call' = "create_terrain"
    /\ UNCHANGED <<loop_vars, calls, water_vars, bezier_vars, hdri_vars, report_vars, host_vars, anim_vars, dev_call, scene_vars>>

SelectRiverbedVertices ==
    /\ riverbed_indices = <<>> /\ riverbank_indices = <<>>
    /\ \E cl \in LeftCurves, cr \in RightCurves :
            select_riverbed_vertices(cl, cr)
    /\ last_call' = "select_riverbed_vertices"
    /\ UNCHANGED <<loop_vars, calls, water_vars, bezier_vars, hdri_vars, depth_args, host_vars, anim_vars, dev_call, scene_vars>>

CreateWaterPlane ==
    /\ \E cfg \in TerrainConfigs :
            create_water_plane(<<cfg.width, cfg.length>>, cfg.subdivisions)
    /\ last_call' = "create_water_plane"
    /\ UNCHANGED <<terrain_vars, loop_vars, calls, bezier_vars, hdri_vars, report_vars, host_vars, anim_vars, dev_call, scene_vars>>

\* add_water_to_river passes the generator's waterlines (rocky_river_terrain.py
\* lines 95-97); a caller may also pass empty lists
DeleteVerticesBeyondWaterlines ==
    /\ \E given \in {<<left_waterline, right_waterline>>, <<(<<>>), (<<>>)>>} :
            delete_vertices_beyond_waterlines(given[1], given[2])
    /\ last_call' = "delete_vertices_beyond_waterlines"
    /\ UNCHANGED <<terrain_vars, loop_vars, calls, bezier_vars, hdri_vars,
                   depth_args, anim_vars, dev_call, scene_vars>>

Next ==
    \/ CreateTerrain
    \/ SelectRiverbedVertices
    \/ CreateWaterPlane
    \/ DeleteVerticesBeyondWaterlines

Spec == Init /\ [][Next]_vars

---------------------------------------------------------------------------
(* SpecReuse: any sequence of create_terrain and select_riverbed_vertices
   calls on one RiverbedGenerator, MaxCalls calls at most *)

ReuseCreateTerrain ==
    /\ calls < MaxCalls
    /\ \E cfg \in TerrainConfigs : create_terrain(cfg)
    /\ calls' = calls + 1
    /\ last_call' = "create_terrain"
    /\ UNCHANGED <<loop_vars, water_vars, bezier_vars, hdri_vars, report_vars, host_vars, anim_vars, dev_call, scene_vars>>

ReuseSelectRiverbedVertices ==
    /\ calls < MaxCalls
    /\ \E cl \in LeftCurves, cr \in RightCurves :
            select_riverbed_vertices(cl, cr)
    /\ calls' = calls + 1
    /\ last_call' = "select_riverbed_vertices"
    /\ UNCHANGED <<loop_vars, water_vars, bezier_vars, hdri_vars, depth_args, host_vars, anim_vars, dev_call, scene_vars>>

NextReuse ==
    \/ ReuseCreateTerrain
    \/ ReuseSelectRiverbedVertices

SpecReuse == Init /\ [][NextReuse]_vars

---------------------------------------------------------------------------
(* SpecBezier: interpolate_bezier applied to a control set *)

\* the control sets: num_points points on the y-values of create_deviations,
\* each x zero or a deviation
ControlSets ==
    UNION { { [i \in 1..m |-> <<xs[i], DeviationY(m, i)>>] :
              xs \in [1..m -> DeviationX \cup {0}] } :
            m \in 2..MaxControlPoints }

InitBezierInput ==
    /\ InitTerrain
    /\ InitLoop
    /\ InitWater
    /\ InitScene
    /\ InitHdri
    /\ InitReport
    /\ InitHost
    /\ InitAnim
    /\ InitDev
    /\ calls = 0
    /\ last_call = "__init__"
    /\ bz_input \in ControlSets
    /\ bz_output = <<>>
    /\ bz_done = FALSE
    /\ bs_output = <<>>
    /\ bs_done = FALSE

InterpolateBezier ==
    /\ ~bz_done
    /\ bz_output' = interpolate_bezier(bz_input)
    /\ bz_done' = TRUE
    /\ UNCHANGED <<bz_input, bs_output, bs_done, terrain_vars, loop_vars,
                   calls, last_call, water_vars, scene_vars, hdri_vars, report_vars, host_vars, anim_vars, dev_call>>

SpecBezier == InitBezierInput /\ [][InterpolateBezier]_vars

---------------------------------------------------------------------------
(* SpecFit: interpolate_bezier and interpolate_bspline applied to a control
   set that create_deviations returns *)

DeviationSets ==
    UNION { create_deviations(m, k, DeviationX) :
              m \in 2..MaxSplinePoints, k \in 0..MaxSplineDeviations }

InitFit ==
    /\ InitTerrain
    /\ InitLoop
    /\ InitWater
    /\ InitScene
    /\ InitHdri
    /\ InitReport
    /\ InitHost
    /\ InitAnim
    /\ InitDev
    /\ calls = 0
    /\ last_call = "__init__"
    /\ bz_input \in DeviationSets
    /\ bz_output = <<>>
    /\ bz_done = FALSE
    /\ bs_output = <<>>
    /\ bs_done = FALSE

FitBezier ==
    /\ ~bz_done
    /\ bz_output' = interpolate_bezier(bz_input)
    /\ bz_done' = TRUE
    /\ UNCHANGED <<bz_input, bs_output, bs_done, terrain_vars, loop_vars,
                   calls, last_call, water_vars, scene_vars, hdri_vars, report_vars, host_vars, anim_vars, dev_call>>

FitBspline ==
    /\ ~bs_done
    /\ bs_output' = interpolate_bspline(bz_input)
    /\ bs_done' = TRUE
    /\ UNCHANGED <<bz_input, bz_output, bz_done, terrain_vars, loop_vars,
                   calls, last_call, water_vars, scene_vars, hdri_vars, report_vars, host_vars, anim_vars, dev_call>>

NextFit ==
    \/ FitBezier
    \/ FitBspline

SpecFit == InitFit /\ [][NextFit]_vars

---------------------------------------------------------------------------
(* SpecDeviations: create_deviations called once, on a generator of any
   subdivisions[1] with any num_deviations *)

\* the num_deviations a caller passes: none, some, and more than there are
\* points on the shortest curves
DeviationRequests == 0..(MaxSplineDeviations + 1)

\* create_deviations(num_deviations) on CurveGenerator(10, 20, (8, sub_y))
CreateDeviations ==
    /\ dev_call = NoDevCall
    /\ \E sub_y \in 0..(MaxSplinePoints - 2), n \in DeviationRequests :
         \E points \in create_deviations(sub_y + 2, n, DeviationX) :
            dev_call' = [subdivisions_y |-> sub_y, num_deviations |-> n,
                         points |-> points]
    /\ last_call' = "create_deviations"
    /\ UNCHANGED <<terrain_vars, loop_vars, calls, water_vars, bezier_vars,
                   scene_vars, hdri_vars, report_vars, host_vars, anim_vars>>

SpecDeviations == Init /\ [][CreateDeviations]_vars

---------------------------------------------------------------------------
(* RiverbedGenerator.dig_riverbed, raise_riverbank and align_riverbank_edges:
   one bpy.ops.transform.translate per target vertex, with proportional
   editing.  A pass is a call of one of the three; a step is one iteration
   of its loop. *)

\* the square of the planar distance between vertices u and v
DistSq(u, v) ==
    (VertX(u) - VertX(v)) * (VertX(u) - VertX(v))
    + (VertY(u) - VertY(v)) * (VertY(u) - VertY(v))

\* the planar distance between vertices u and v, rounded down
Dist(u, v) ==
    LET dx == Abs(VertX(u) - VertX(v))
        dy == Abs(VertY(u) - VertY(v))
        longer == IF dx > dy THEN dx ELSE dy
        \* the distance is at least (dx + dy) / sqrt(2)
        across == (7 * (dx + dy)) \div 10
        lo == IF longer > across THEN longer ELSE across
        sq == DistSq(u, v)
    IN  CHOOSE s \in lo..(dx + dy) :
            s * s <= sq /\ (s + 1) * (s + 1) > sq

\* the distance from u to the nearest vertex of the selection
NearestDist(u, sel) ==
    LET ds == {Dist(u, s) : s \in sel}
    IN  CHOOSE d \in ds : \A e \in ds : d <= e

\* delta * num / den, rounded to the nearest elevation unit
ScaleRound(delta, num, den) ==
    IF delta >= 0 THEN RoundDiv(delta * num, den)
    ELSE -RoundDiv((-delta) * num, den)

\* the SMOOTH falloff of proportional editing applied to delta: the weight is
\* 3t^2 - 2t^3 with t = 1 - d/r, and nothing at distance r or more
SmoothFalloff(delta, d, r) ==
    IF d >= r THEN 0
    ELSE ScaleRound(delta, (r - d) * (r - d) * (r + 2 * d), r * r * r)

\* a translation that leaves a copy of the vertex behind, as
\* bpy.ops.mesh.duplicate_move does
translate_duplicating(zz, sel, delta, radius) ==
    IF sel = {} THEN zz
    ELSE [u \in 1..Len(zz) |-> IF u \in sel THEN zz[u] + delta ELSE zz[u]]
         \o [i \in 1..Cardinality(sel) |-> 0]

\* bpy.ops.transform.translate(value=(0, 0, delta), use_proportional_edit=True,
\* proportional_size=radius): the selection moves by delta, the vertices
\* around it by the falloff of their distance to it
translate(zz, sel, delta, radius) ==
    IF sel = {} THEN zz
    ELSE [u \in 1..Len(zz) |->
            IF u \in sel THEN zz[u] + delta
            ELSE zz[u] + SmoothFalloff(delta, NearestDist(u, sel), radius)]

\* the selection when the earlier selection is kept
SelectAlso(sel, v) == sel \cup {v}

\* lines 145-148, 203-206 and 253-254: deselect all, then select the vertex
SelectOnly(sel, v) == {v}

\* line 151 without the factor -1.0
dig_delta_unsigned(draw) == draw

\* line 151: z_depth = -1.0 * random.uniform(min_pit_depth, max_pit_depth)
dig_delta(draw) == -draw

\* lines 209-213: the drawn height times abs(x) / (0.5 * plane_width)
raise_delta(v, draw) ==
    RoundDiv(draw * Abs(VertX(v)) * 2, plane_width * Unit)

\* the translation that leaves the vertex where it is
align_delta_none(zz, v) == 0

\* line 260: relative_translation = (0, 0, -vert.co.z)
align_delta(zz, v) == -zz[v]

\* the translation that puts vertex v at the drawn elevation
DeltaToLevel(kind, zz, v, draw) ==
    CASE kind = "dig_riverbed" -> dig_delta(draw) - zz[v]
      [] kind = "raise_riverbank" -> raise_delta(v, draw) - zz[v]
      [] kind = "align_riverbank_edges" -> align_delta(zz, v)

\* the translation one iteration of the loop of the pass applies to vertex v
Delta(kind, zz, v, draw) ==
    CASE kind = "dig_riverbed" -> dig_delta(draw)
      [] kind = "raise_riverbank" -> raise_delta(v, draw)
      [] kind = "align_riverbank_edges" -> align_delta(zz, v)

\* line 242: boundary_verts = [v for v in bm.verts if v.is_boundary]
boundary_verts ==
    SelectSeq(Range(1, Len(z)), LAMBDA v : IsBoundary(v, plane_subdivisions))

\* the loops of lines 141-160, 199-222 and 251-270 from position pos on
RECURSIVE RunPass(_, _, _, _, _, _)
RunPass(kind, zz, targets, draws, radius, pos) ==
    IF pos > Len(targets) THEN zz
    ELSE RunPass(kind,
                 translate(zz, SelectOnly({}, targets[pos]),
                           Delta(kind, zz, targets[pos], draws[pos]), radius),
                 targets, draws, radius, pos + 1)

\* the draws of random.uniform(lo, hi) over one pass: all low, all high, and
\* the two alternations
DrawVectors(n, lo, hi) ==
    { [i \in 1..n |-> lo], [i \in 1..n |-> hi],
      [i \in 1..n |-> IF i % 2 = 1 THEN lo ELSE hi],
      [i \in 1..n |-> IF i % 2 = 1 THEN hi ELSE lo] }

\* the sequence s without its i-th element
Remove(s, i) == [j \in 1..(Len(s) - 1) |-> IF j < i THEN s[j] ELSE s[j + 1]]

\* the pass without its early return and without the restore after an empty
\* loop: Edit Mode and the SMOOTH falloff whatever the index list holds
BeginPassUnguarded(kind, targets, draws, radius) ==
    /\ call' = [kind |-> kind, targets |-> targets, draws |-> draws,
                radius |-> radius, start_z |-> z, after |-> last_call,
                after_radius |-> call.radius, in_order |-> TRUE,
                original_falloff |-> proportional_edit_falloff]
    /\ last_call' = kind
    /\ calls' = calls + 1
    /\ pc' = IF targets = <<>> THEN "idle" ELSE kind
    /\ host_mode' = "EDIT"
    /\ proportional_edit_falloff' = "SMOOTH"
    /\ message' = "none"
    /\ todo' = IF targets = <<>> THEN <<>> ELSE Range(1, Len(targets))
    /\ UNCHANGED <<terrain_vars, last_op, water_vars, bezier_vars, hdri_vars,
                   depth_args, anim_vars, dev_call, scene_vars>>

\* the pass is entered: the early return of lines 129-131 and 187-189 when
\* the index list is empty, else the loop is about to run over targets
BeginPass(kind, targets, draws, radius) ==
    /\ call' = [kind |-> kind, targets |-> targets, draws |-> draws,
                radius |-> radius, start_z |-> z, after |-> last_call,
                after_radius |-> call.radius, in_order |-> TRUE,
                original_falloff |-> proportional_edit_falloff]
    /\ last_call' = kind
    /\ calls' = calls + 1
    /\ pc' = IF targets = <<>> THEN "idle" ELSE kind
    \* lines 136-140, 194-198 and 234-248: Edit Mode and the SMOOTH falloff
    \* once the early return is passed; the empty loop of
    \* align_riverbank_edges falls through to lines 272-274
    /\ host_mode' = IF targets # <<>> THEN "EDIT"
                    ELSE IF kind = "align_riverbank_edges" THEN "OBJECT"
                    ELSE host_mode
    /\ proportional_edit_falloff' =
           IF targets # <<>> THEN "SMOOTH" ELSE proportional_edit_falloff
    /\ message' = IF targets # <<>> \/ kind = "align_riverbank_edges" THEN "none"
                  ELSE IF kind = "dig_riverbed"
                  THEN "[ERROR] No riverbed vertices selected."
                  ELSE "[ERROR] No riverbank vertices selected."
    /\ todo' = IF targets = <<>> THEN <<>> ELSE Range(1, Len(targets))
    /\ UNCHANGED <<terrain_vars, last_op, water_vars, bezier_vars, hdri_vars,
                   depth_args, anim_vars, dev_call, scene_vars>>

\* one iteration of the loop of the pass, on the pick-th of the positions
\* still to visit (the program always takes the first)
PassStep(kind, pick) ==
    /\ pc = kind
    /\ pick \in 1..Len(todo)
    /\ LET pos == todo[pick]
           v == call.targets[pos]
           delta == Delta(kind, z, v, call.draws[pos])
           sel == SelectOnly(selected, v)
       IN  /\ selected' = sel
           /\ z' = translate(z, sel, delta, call.radius)
           /\ last_op' = [target |-> v, delta |-> delta, radius |-> call.radius]
    /\ todo' = Remove(todo, pick)
    /\ pc' = IF Len(todo) = 1 THEN "idle" ELSE pc
    /\ call' = [call EXCEPT !.in_order = @ /\ pick = 1]
    \* lines 162-163, 224-225 and 272-274, after the last iteration
    /\ host_mode' = IF Len(todo) = 1 THEN "OBJECT" ELSE host_mode
    /\ proportional_edit_falloff' =
           IF Len(todo) = 1 THEN call.original_falloff
           ELSE proportional_edit_falloff
    /\ UNCHANGED <<plane, plane_width, plane_length, plane_subdivisions,
                   left_waterline, right_waterline, riverbed_indices,
                   riverbank_indices, plane_id, calls, last_call,
                   water_vars, bezier_vars, hdri_vars, report_vars,
                   anim_vars, dev_call, scene_vars>>

---------------------------------------------------------------------------
(* Sculpting a classified terrain: the passes in any number and order, each
   loop one iteration at a time in the order of the program *)

MaxPasses == 3

\* the default radius 1.8 of the three passes, and a radius below the grid
\* spacing of the sculpted terrains
PitRadius == RoundDiv(18 * Unit, 10)
SmallRadius == RoundDiv(8 * Unit, 10)

\* the terrain that is sculpted: 3 x 3 vertices, 1.0 apart
SculptConfig == [width |-> 2, length |-> 2, subdivisions |-> <<2, 2>>]

\* the right curves whose deviations are all drawn at 0.25 * width
SculptRightCurves ==
    create_bezier_curve(NumPoints, NumRightDeviations,
                        {(CurveWidth * Unit) \div 4})

\* a classified terrain between two passes
ReadyToSculpt ==
    /\ pc = "idle"
    /\ plane
    /\ left_waterline # <<>>
    /\ right_waterline # <<>>

SculptCreateTerrain ==
    /\ ~plane
    /\ create_terrain(SculptConfig)
    /\ last_call' = "create_terrain"
    /\ UNCHANGED <<loop_vars, calls, water_vars, bezier_vars, hdri_vars, report_vars, host_vars, anim_vars, dev_call, scene_vars>>

\* the curves whose deviations are all drawn at x
SidedCurves(num_deviations, x) ==
    create_bezier_curve(NumPoints, num_deviations, {x})

\* the curve pairs of the sculpted terrains: a channel along the left column
\* (left curve at -0.25 * width, right curve at -0.1 * width), and a channel
\* that misses the grid (both curves at 0.25 * width)
SculptCurvePairs ==
    (SidedCurves(NumLeftDeviations, -((CurveWidth * Unit) \div 4))
     \X SidedCurves(NumRightDeviations, -((CurveWidth * Unit) \div 10)))
    \cup (SidedCurves(NumLeftDeviations, (CurveWidth * Unit) \div 4)
          \X SidedCurves(NumRightDeviations, (CurveWidth * Unit) \div 4))

SculptSelectRiverbedVertices ==
    /\ plane
    /\ left_waterline = <<>>
    /\ \E curves \in SculptCurvePairs :
           select_riverbed_vertices(curves[1], curves[2])
    /\ last_call' = "select_riverbed_vertices"
    /\ UNCHANGED <<loop_vars, calls, water_vars, bezier_vars, hdri_vars, depth_args, host_vars, anim_vars, dev_call, scene_vars>>

\* dig_riverbed(0.2, 0.5, 1.8) up to its loop
DigRiverbed ==
    /\ ReadyToSculpt
    /\ calls < MaxPasses
    /\ \E draws \in DrawVectors(Len(riverbed_indices), MinPitDepth, MaxPitDepth) :
           BeginPass("dig_riverbed", riverbed_indices, draws, PitRadius)

\* raise_riverbank(0.0, 0.2, 1.8) up to its loop
RaiseRiverbank ==
    /\ ReadyToSculpt
    /\ calls < MaxPasses
    /\ \E draws \in DrawVectors(Len(riverbank_indices), 0, MaxRiverbankHeight) :
           BeginPass("raise_riverbank", riverbank_indices, draws, PitRadius)

\* align_riverbank_edges(radius) up to its loop
AlignRiverbankEdges ==
    /\ ReadyToSculpt
    /\ calls < MaxPasses
    /\ \E radius \in {SmallRadius, PitRadius} :
           BeginPass("align_riverbank_edges", boundary_verts,
                     [i \in 1..Len(boundary_verts) |-> 0], radius)

DigStep == todo # <<>> /\ PassStep("dig_riverbed", 1)
RaiseStep == todo # <<>> /\ PassStep("raise_riverbank", 1)
AlignStep == todo # <<>> /\ PassStep("align_riverbank_edges", 1)

NextSculpt ==
    \/ SculptCreateTerrain
    \/ SculptSelectRiverbedVertices
    \/ DigRiverbed
    \/ RaiseRiverbank
    \/ AlignRiverbankEdges
    \/ DigStep
    \/ RaiseStep
    \/ AlignStep

SpecSculpt == Init /\ [][NextSculpt]_vars

---------------------------------------------------------------------------
(* dig_riverbed called with the depths the caller configured, in either
   order of min_pit_depth and max_pit_depth *)

\* the depth ranges a caller passes: 0.2 to 0.5, one depth 0.2, and the
\* reversed range 0.5 to 0.2
DepthConfigs ==
    { [min |-> MinPitDepth, max |-> MaxPitDepth],
      [min |-> MinPitDepth, max |-> MinPitDepth],
      [min |-> MaxPitDepth, max |-> MinPitDepth] }

\* the state after construction, before a caller that holds one of the
\* depth ranges
InitConfig ==
    /\ InitTerrain
    /\ InitLoop
    /\ calls = 0
    /\ last_call = "__init__"
    /\ InitWater
    /\ InitBezier
    /\ InitScene
    /\ InitHdri
    /\ depth_args \in DepthConfigs
    /\ message = "none"
    /\ InitHost
    /\ InitAnim
    /\ InitDev

\* dig_riverbed(min_pit_depth, max_pit_depth, 1.8) up to its loop: the
\* depths reach random.uniform (line 151) as they were passed
ConfigDigRiverbed ==
    /\ ReadyToSculpt
    /\ calls < MaxPasses
    /\ \E draws \in DrawVectors(Len(riverbed_indices),
                                 depth_args.min, depth_args.max) :
           BeginPass("dig_riverbed", riverbed_indices, draws, PitRadius)

NextConfig ==
    \/ SculptCreateTerrain
    \/ SculptSelectRiverbedVertices
    \/ ConfigDigRiverbed
    \/ DigStep

SpecConfig == InitConfig /\ [][NextConfig]_vars

---------------------------------------------------------------------------
(* The same passes when a loop may visit its targets in any order: what the
   loop leaves is compared with what the order of the program leaves *)

MaxOrderPasses == 2

\* 2 x 2 vertices, 2.0 apart
OrderConfig == [width |-> 2, length |-> 2, subdivisions |-> <<1, 1>>]

\* pit_radius = 2.5 (create_riverbed, line 283): the neighbours along the
\* ring are inside it, the opposite corner is not
OrderRadius == RoundDiv(5 * Unit, 2)

OrderCreateTerrain ==
    /\ ~plane
    /\ create_terrain(OrderConfig)
    /\ last_call' = "create_terrain"
    /\ UNCHANGED <<loop_vars, calls, water_vars, bezier_vars, hdri_vars, report_vars, host_vars, anim_vars, dev_call, scene_vars>>

OrderDigRiverbed ==
    /\ ReadyToSculpt
    /\ calls < MaxOrderPasses
    /\ \E draws \in DrawVectors(Len(riverbed_indices), MinPitDepth, MaxPitDepth) :
           BeginPass("dig_riverbed", riverbed_indices, draws, OrderRadius)

OrderRaiseRiverbank ==
    /\ ReadyToSculpt
    /\ calls < MaxOrderPasses
    /\ \E draws \in DrawVectors(Len(riverbank_indices), 0, MaxRiverbankHeight) :
           BeginPass("raise_riverbank", riverbank_indices, draws, OrderRadius)

OrderAlignRiverbankEdges ==
    /\ ReadyToSculpt
    /\ calls < MaxOrderPasses
    /\ BeginPass("align_riverbank_edges", boundary_verts,
                 [i \in 1..Len(boundary_verts) |-> 0], OrderRadius)

OrderDigStep == \E pick \in 1..Len(todo) : PassStep("dig_riverbed", pick)
OrderRaiseStep == \E pick \in 1..Len(todo) : PassStep("raise_riverbank", pick)
OrderAlignStep ==
    \E pick \in 1..Len(todo) : PassStep("align_riverbank_edges", pick)

NextOrder ==
    \/ OrderCreateTerrain
    \/ SculptSelectRiverbedVertices
    \/ OrderDigRiverbed
    \/ OrderRaiseRiverbank
    \/ OrderAlignRiverbankEdges
    \/ OrderDigStep
    \/ OrderRaiseStep
    \/ OrderAlignStep

SpecOrder == Init /\ [][NextOrder]_vars

---------------------------------------------------------------------------
(* RockyRiverTerrain: run_demo's pipeline create_riverbed_terrain,
   add_water_to_river, add_some_rocks, create_hdri_background, one call of
   the two generators at a time; each sculpting pass runs its whole loop *)

\* the (plane_width, plane_length) the scene is built with
SceneSizes == {<<2, 2>>, <<2, 3>>}

\* line 21: subdivisions = [plane_width * 2 - 2, plane_length * 2 - 2]
SceneConfig(size) ==
    [width |-> size[1], length |-> size[2],
     subdivisions |-> <<size[1] * 2 - 2, size[2] * 2 - 2>>]

\* lines 65-67: pit_radius = 2.5, bump_radius = 3.0, proportional_radius = 3.0
ScenePitRadius == RoundDiv(5 * Unit, 2)
SceneBumpRadius == 3 * Unit

\* num_rocks: one rock, and the default of 10 (line 100)
RockCounts == {1, 10}

\* the grid as it is now, for a list of indices computed on it
Stamp(grid) == [grid |-> grid, version |-> grid_version[grid]]

\* a new grid object, or a grid that lost vertices
NewVersion(grid) == [grid_version EXCEPT ![grid] = @ + 1]

\* the record of the handler addressing the vertices of the grid by the
\* indices of a list (none when the list is empty)
IndexUse(handler, grid, indices) ==
    IF indices = <<>> THEN {}
    ELSE {[by |-> handler, indices_of |-> index_stamp,
           addressed |-> Stamp(grid), after_trim |-> grid_version.trims > 0]}

\* lines 49-53: riverbed_generator.create_terrain
SceneCreateTerrain ==
    /\ scene_pc = "create_terrain"
    /\ \E size \in SceneSizes : create_terrain(SceneConfig(size))
    /\ grid_version' = NewVersion("terrain")
    /\ last_call' = "create_terrain"
    /\ scene_pc' = "select_riverbed_vertices"
    /\ UNCHANGED <<loop_vars, calls, water_vars, bezier_vars, hdri_vars, report_vars, host_vars, anim_vars, dev_call, rocks,
                   index_uses, index_stamp>>

\* line 64: riverbed_generator.select_riverbed_vertices
SceneSelectRiverbedVertices ==
    /\ scene_pc = "select_riverbed_vertices"
    /\ \E cl \in LeftCurves, cr \in SculptRightCurves :
           select_riverbed_vertices(cl, cr)
    /\ index_stamp' = Stamp("terrain")
    /\ last_call' = "select_riverbed_vertices"
    /\ scene_pc' = "dig_riverbed"
    /\ UNCHANGED <<loop_vars, calls, water_vars, bezier_vars, hdri_vars, depth_args, host_vars, anim_vars, dev_call, rocks,
                   index_uses, grid_version>>

\* a sculpting pass of the scene, from the call to the return
ScenePass(kind, targets, draws, radius) ==
    /\ z' = RunPass(kind, z, targets, draws, radius, 1)
    /\ selected' = IF targets = <<>> THEN selected
                   ELSE SelectOnly(selected, targets[Len(targets)])
    /\ last_call' = kind
    /\ message' = IF targets # <<>> \/ kind = "align_riverbank_edges" THEN "none"
                  ELSE IF kind = "dig_riverbed"
                  THEN "[ERROR] No riverbed vertices selected."
                  ELSE "[ERROR] No riverbank vertices selected."
    /\ UNCHANGED <<plane, plane_width, plane_length, plane_subdivisions,
                   left_waterline, right_waterline, riverbed_indices,
                   riverbank_indices, plane_id, loop_vars, calls, water_vars,
                   bezier_vars, hdri_vars, depth_args, anim_vars, dev_call,
                   rocks, index_stamp, grid_version>>
    \* the whole pass: Edit Mode entered and left, the falloff set and
    \* restored, unless the early return is taken
    /\ host_mode' = IF targets # <<>> \/ kind = "align_riverbank_edges"
                    THEN "OBJECT" ELSE host_mode
    /\ UNCHANGED proportional_edit_falloff

\* line 65: dig_riverbed(0.2, 0.5, 2.5), which addresses
\* self.plane.data.vertices by riverbed_indices (line 147)
SceneDigRiverbed ==
    /\ scene_pc = "dig_riverbed"
    /\ \E draws \in DrawVectors(Len(riverbed_indices), MinPitDepth, MaxPitDepth) :
           ScenePass("dig_riverbed", riverbed_indices, draws, ScenePitRadius)
    /\ index_uses' =
           index_uses \cup IndexUse("dig_riverbed", "terrain", riverbed_indices)
    /\ scene_pc' = "raise_riverbank"

\* line 66: raise_riverbank(0.0, 0.2, 3.0), which addresses
\* self.plane.data.vertices by riverbank_indices (lines 205 and 212)
SceneRaiseRiverbank ==
    /\ scene_pc = "raise_riverbank"
    /\ \E draws \in DrawVectors(Len(riverbank_indices), 0, MaxRiverbankHeight) :
           ScenePass("raise_riverbank", riverbank_indices, draws,
                     SceneBumpRadius)
    /\ index_uses' =
           index_uses
           \cup IndexUse("raise_riverbank", "terrain", riverbank_indices)
    /\ scene_pc' = "align_riverbank_edges"

\* line 67: align_riverbank_edges(3.0), which holds the vertices themselves
SceneAlignRiverbankEdges ==
    /\ scene_pc = "align_riverbank_edges"
    /\ ScenePass("align_riverbank_edges", boundary_verts,
                 [i \in 1..Len(boundary_verts) |-> 0], SceneBumpRadius)
    /\ scene_pc' = "create_water"
    /\ UNCHANGED index_uses

\* line 91: water_generator.create_water with the extents and the
\* subdivisions of the terrain
SceneCreateWater ==
    /\ scene_pc = "create_water"
    /\ create_water_plane(<<plane_width, plane_length>>, plane_subdivisions)
    /\ grid_version' = NewVersion("water")
    /\ last_call' = "create_water_plane"
    /\ scene_pc' = "delete_vertices_beyond_waterlines"
    /\ UNCHANGED <<terrain_vars, loop_vars, calls, bezier_vars, hdri_vars, report_vars, host_vars, anim_vars, dev_call, rocks,
                   index_uses, index_stamp>>

\* lines 95-97: the water mesh is trimmed to the waterlines of the terrain;
\* the vertices to delete are held as vertices, not as indices
SceneDeleteVerticesBeyondWaterlines ==
    /\ scene_pc = "delete_vertices_beyond_waterlines"
    /\ delete_vertices_beyond_waterlines(left_waterline, right_waterline)
    /\ grid_version' =
           [(IF Len(water_verts') < Len(water_verts)
             THEN NewVersion("water") ELSE grid_version)
            EXCEPT !.trims = @ + 1]
    /\ last_call' = "delete_vertices_beyond_waterlines"
    /\ scene_pc' = "add_some_rocks"
    /\ UNCHANGED <<terrain_vars, loop_vars, calls, bezier_vars, hdri_vars,
                   depth_args, anim_vars, dev_call, rocks, index_uses,
                   index_stamp>>

\* the <<x, y, z>> of the vertices of the grid, by index
GridPositions(grid) ==
    IF grid = "terrain"
    THEN [v \in 1..Len(z) |-> <<VertX(v), VertY(v), z[v]>>]
    ELSE [v \in 1..Len(water_verts) |->
             <<PX(water_verts[v]), PY(water_verts[v]), 0>>]

\* random.sample(list, n): a run of n elements, or the first n backwards
Samples(list, n) ==
    { [i \in 1..n |-> list[k + i - 1]] : k \in 1..(Len(list) - n + 1) }
    \cup { [i \in 1..n |-> list[n + 1 - i]] }

\* the water mesh
RockGridWater == "water"

\* line 104: riverbed_vertices = self.riverbed_generator.plane.data.vertices
RockGrid == "terrain"

\* add_some_rocks (lines 100-144): a rock at some of the vertices that
\* riverbed_indices addresses; an index beyond the grid raises IndexError
\* and ends the run
SceneAddSomeRocks ==
    /\ scene_pc = "add_some_rocks"
    /\ LET riverbed_vertices == GridPositions(RockGrid)
           in_range == \A i \in 1..Len(riverbed_indices) :
                           riverbed_indices[i] <= Len(riverbed_vertices)
       IN  /\ index_uses' =
                  index_uses
                  \cup IndexUse("add_some_rocks", RockGrid, riverbed_indices)
           /\ IF in_range
              THEN LET possible_locations ==
                           [i \in 1..Len(riverbed_indices) |->
                               riverbed_vertices[riverbed_indices[i]]]
                   IN  /\ \E given \in RockCounts :
                           LET num_rocks ==
                                   IF Len(possible_locations) < given
                                   THEN Len(possible_locations) ELSE given
                           IN  \E selected_locations
                                   \in Samples(possible_locations, num_rocks) :
                                   rocks' = rocks \o selected_locations
                       /\ scene_pc' = "create_hdri_background"
              ELSE /\ rocks' = rocks
                   /\ scene_pc' = "IndexError"
    /\ last_call' = "add_some_rocks"
    /\ UNCHANGED <<terrain_vars, loop_vars, calls, water_vars, bezier_vars, hdri_vars, report_vars, host_vars, anim_vars, dev_call,
                   index_stamp, grid_version>>

\* create_hdri_background (lines 147-161) reads the dimensions of the
\* terrain and addresses no vertex
SceneCreateHdriBackground ==
    /\ scene_pc = "create_hdri_background"
    /\ last_call' = "create_hdri_background"
    /\ scene_pc' = "done"
    /\ UNCHANGED <<terrain_vars, loop_vars, calls, water_vars, bezier_vars, hdri_vars, report_vars, host_vars, anim_vars, dev_call,
                   rocks, index_uses, index_stamp, grid_version>>

NextScene ==
    \/ SceneCreateTerrain
    \/ SceneSelectRiverbedVertices
    \/ SceneDigRiverbed
    \/ SceneRaiseRiverbank
    \/ SceneAlignRiverbankEdges
    \/ SceneCreateWater
    \/ SceneDeleteVerticesBeyondWaterlines
    \/ SceneAddSomeRocks
    \/ SceneCreateHdriBackground

SpecScene == Init /\ [][NextScene]_vars

---------------------------------------------------------------------------
(* SpecRiverbed: RiverbedGenerator.create_riverbed (lines 278-294), the five
   calls in their order, each loop one iteration at a time *)

\* line 281: a plane of 20 by 40; the grid has 11 x 21 vertices, 2.0 apart
\* (39 x 79 vertices, about 0.5 apart, in the program)
RiverbedConfig == [width |-> 20, length |-> 40, subdivisions |-> <<10, 20>>]

\* the curve pairs of the run: the widest channel (left curve at
\* -0.25 * width, right curve at 0.25 * width) and the narrowest (left
\* curve at 0.25 * width, right curve at -0.25 * width)
RiverbedCurvePairs ==
    (SidedCurves(NumLeftDeviations, -((CurveWidth * Unit) \div 4))
     \X SidedCurves(NumRightDeviations, (CurveWidth * Unit) \div 4))
    \cup (SidedCurves(NumLeftDeviations, (CurveWidth * Unit) \div 4)
          \X SidedCurves(NumRightDeviations, -((CurveWidth * Unit) \div 4)))

\* line 281
RiverbedCreateTerrain ==
    /\ last_call = "__init__"
    /\ create_terrain(RiverbedConfig)
    /\ last_call' = "create_terrain"
    /\ UNCHANGED <<loop_vars, calls, water_vars, bezier_vars, hdri_vars,
                   report_vars, host_vars, anim_vars, dev_call, scene_vars>>

\* line 283: select_riverbed_vertices()
RiverbedSelectRiverbedVertices ==
    /\ last_call = "create_terrain"
    /\ \E curves \in RiverbedCurvePairs :
           select_riverbed_vertices(curves[1], curves[2])
    /\ last_call' = "select_riverbed_vertices"
    /\ UNCHANGED <<loop_vars, calls, water_vars, bezier_vars, hdri_vars,
                   depth_args, host_vars, anim_vars, dev_call, scene_vars>>

\* line 284: dig_riverbed(0.2, 0.5, 2.5) up to its loop
RiverbedDigRiverbed ==
    /\ last_call = "select_riverbed_vertices"
    /\ \E draws \in DrawVectors(Len(riverbed_indices), MinPitDepth, MaxPitDepth) :
           BeginPass("dig_riverbed", riverbed_indices, draws, ScenePitRadius)

\* line 285: raise_riverbank(0.0, 0.2, 3.0) up to its loop, once
\* dig_riverbed has returned
RiverbedRaiseRiverbank ==
    /\ last_call = "dig_riverbed"
    /\ pc = "idle"
    /\ \E draws \in DrawVectors(Len(riverbank_indices), 0, MaxRiverbankHeight) :
           BeginPass("raise_riverbank", riverbank_indices, draws,
                     SceneBumpRadius)

\* line 286: align_riverbank_edges(3.0) up to its loop, once
\* raise_riverbank has returned
RiverbedAlignRiverbankEdges ==
    /\ last_call = "raise_riverbank"
    /\ pc = "idle"
    /\ BeginPass("align_riverbank_edges", boundary_verts,
                 [i \in 1..Len(boundary_verts) |-> 0], SceneBumpRadius)

NextRiverbed ==
    \/ RiverbedCreateTerrain
    \/ RiverbedSelectRiverbedVertices
    \/ RiverbedDigRiverbed
    \/ RiverbedRaiseRiverbank
    \/ RiverbedAlignRiverbankEdges
    \/ DigStep
    \/ RaiseStep
    \/ AlignStep

SpecRiverbed == Init /\ [][NextRiverbed]_vars

---------------------------------------------------------------------------
(* DomeHdriGenerator.find_brightest_point_in_hdri
   (dome_with_hdri_and_sun_generator.py:365-428)

   An image is [width, height, pixels]; pixels is the host's buffer after
   the reshape of line 382: a sequence of rows, the bottom row first, each
   row a sequence of <<R, G, B, A>>.  Pixel coordinates (u, v) are 0-based
   as in the code.  A mean and a UV coordinate are kept as a fraction
   <<numerator, denominator>>, denominator > 0. *)

\* the largest width and height of an image
MaxImageSize == 6
\* the most F-curves the action of the animated object holds
MaxFcurves == 2

FracLess(a, b) == a[1] * b[2] < b[1] * a[2]
FracEq(a, b) == a[1] * b[2] = b[1] * a[2]

\* np.flipud (line 385)
flipud(rows) == [i \in 1..Len(rows) |-> rows[Len(rows) + 1 - i]]

RECURSIVE SumOver(_, _)
\* the sum of f over the set S of its arguments
SumOver(f, S) ==
    IF S = {} THEN 0
    ELSE LET c == CHOOSE c \in S : TRUE IN f[c] + SumOver(f, S \ {c})

\* a window that reaches from 1 before the pixel to 2 after it
WindowOffsetsLate == -1..2

\* range(-2, 2) of lines 397-398
WindowOffsets == -2..1

\* lines 394-406: <<brightness, count>> of the neighbourhood of (u, v) in the
\* top-left-origin rows px
Neighbourhood(px, hdri_width, hdri_height, u, v) ==
    LET cells == { c \in WindowOffsets \X WindowOffsets :
                     /\ 0 <= u + c[1] /\ u + c[1] < hdri_width
                     /\ 0 <= v + c[2] /\ v + c[2] < hdri_height }
        rgb == [c \in cells |->
                  LET pixel == px[v + c[2] + 1][u + c[1] + 1]
                  IN  pixel[1] + pixel[2] + pixel[3]]
    IN  <<SumOver(rgb, cells), Cardinality(cells)>>

\* a comparison that lets a later pixel of equal brightness win
BrighterOrEqual(brightness, max_brightness) ==
    ~FracLess(brightness, max_brightness)

\* brightness > max_brightness (line 413)
Brighter(brightness, max_brightness) == FracLess(max_brightness, brightness)

\* the interior pixels in the order of the loops of lines 391-392
InteriorCount(hdri_width, hdri_height) ==
    IF hdri_width < 5 \/ hdri_height < 5 THEN 0
    ELSE (hdri_width - 4) * (hdri_height - 4)
InteriorU(hdri_width, k) == 2 + ((k - 1) % (hdri_width - 4))
InteriorV(hdri_width, k) == 2 + ((k - 1) \div (hdri_width - 4))

RECURSIVE ScanFrom(_, _, _, _, _)
\* lines 391-420 from the k-th interior pixel on; best is
\* [max_brightness, brightest_uv]
ScanFrom(px, hdri_width, hdri_height, k, best) ==
    IF k > InteriorCount(hdri_width, hdri_height) THEN best
    ELSE LET u == InteriorU(hdri_width, k)
             v == InteriorV(hdri_width, k)
             nb == Neighbourhood(px, hdri_width, hdri_height, u, v)
         IN  IF nb[2] > 0 /\ Brighter(nb, best.max_brightness)
             THEN ScanFrom(px, hdri_width, hdri_height, k + 1,
                           [max_brightness |-> nb,
                            brightest_uv |-> <<<<u, hdri_width - 1>>,
                                               <<v, hdri_height - 1>>>>])
             ELSE ScanFrom(px, hdri_width, hdri_height, k + 1, best)

\* the method with line 422 testing max_brightness >= 0
find_brightest_point_in_hdri_from_zero(image) ==
    LET best == ScanFrom(flipud(image.pixels), image.width, image.height, 1,
                         [max_brightness |-> <<-1, 1>>,
                          brightest_uv |-> <<<<0, 1>>, <<0, 1>>>>])
    IN  IF best.max_brightness[1] >= 0
        THEN <<best.brightest_uv, best.max_brightness>>
        ELSE <<<<<<1, 2>>, <<1, 2>>>>, <<0, 1>>>>

\* what the method returns for a loaded image: (brightest_uv,
\* max_brightness), or the default of line 428
find_brightest_point_in_hdri(image) ==
    LET best == ScanFrom(flipud(image.pixels), image.width, image.height, 1,
                         [max_brightness |-> <<-1, 1>>,
                          brightest_uv |-> <<<<0, 1>>, <<0, 1>>>>])
    IN  IF best.max_brightness[1] > 0
        THEN <<best.brightest_uv, best.max_brightness>>
        ELSE <<<<<<1, 2>>, <<1, 2>>>>, <<0, 1>>>>

(* The images of the model: black, or black with a bright 4 x 4 block
   and/or one bright or negative pixel.  Positions are given in the top-left-origin
   buffer; the file holds the rows in the host's order, bottom row first. *)

Black == <<0, 0, 0, 1>>
BlockColour == <<1, 1, 1, 1>>
PixelColours == {<<2, 0, 0, 1>>, <<0, 1, 1, 1>>, <<-1, 0, 0, 1>>}

\* a stamp paints the colour on the square of the given side whose top-left
\* pixel is (u, v)
NoStamp == [u |-> 0, v |-> 0, side |-> 0, colour |-> Black]
Stamps(w, h, side, colours) ==
    { [u |-> u, v |-> v, side |-> side, colour |-> c] :
        u \in 0..(w - side), v \in 0..(h - side), c \in colours }
Covers(stamp, u, v) ==
    /\ stamp.u <= u /\ u < stamp.u + stamp.side
    /\ stamp.v <= v /\ v < stamp.v + stamp.side

\* the image of size w x h with the two stamps added on black
Painted(w, h, block, pixel) ==
    LET top_left == [row \in 1..h |-> [col \in 1..w |->
            LET on(stamp) == Covers(stamp, col - 1, row - 1)
            IN  [ch \in 1..4 |->
                   IF ch = 4 THEN 1
                   ELSE (IF on(block) THEN block.colour[ch] ELSE 0)
                        + (IF on(pixel) THEN pixel.colour[ch] ELSE 0)]]]
    IN  [width |-> w, height |-> h, pixels |-> flipud(top_left)]

Images ==
    UNION { { Painted(w, h, block, pixel) :
                block \in Stamps(w, h, 4, {BlockColour}) \cup {NoStamp},
                pixel \in Stamps(w, h, 1, PixelColours) \cup {NoStamp} } :
            w \in 4..MaxImageSize, h \in 4..MaxImageSize }

---------------------------------------------------------------------------
(* SpecBrightest: find_brightest_point_in_hdri applied to a loaded image *)

InitBrightest ==
    /\ InitTerrain
    /\ InitLoop
    /\ InitWater
    /\ InitBezier
    /\ InitScene
    /\ calls = 0
    /\ last_call = "__init__"
    /\ InitReport
    /\ InitHost
    /\ InitAnim
    /\ InitDev
    /\ hdri_radius = 100
    /\ hdri_file \in Images
    /\ hdri_image = hdri_file
    /\ dome_object = TRUE
    /\ dome_colour = "image"
    /\ brightest = NoResult
    /\ brightest_3d = NoResult
    /\ sun = NoSun
    /\ dome_pc = "find_brightest_point_in_hdri"
    /\ dome_raised = "none"

FindBrightestPointInHdri ==
    /\ dome_pc = "find_brightest_point_in_hdri"
    /\ dome_raised = "none"
    /\ IF hdri_image = NoImage
       THEN /\ dome_raised' = "RuntimeError"
            /\ UNCHANGED <<brightest, dome_pc>>
       ELSE /\ brightest' = find_brightest_point_in_hdri(hdri_image)
            /\ dome_pc' = "convert_hdri_uv_to_3d"
            /\ UNCHANGED dome_raised
    /\ UNCHANGED <<hdri_radius, hdri_file, hdri_image, dome_object,
                   dome_colour, brightest_3d, sun>>
    /\ UNCHANGED <<terrain_vars, loop_vars, calls, last_call, water_vars,
                   bezier_vars, scene_vars, report_vars, host_vars, anim_vars, dev_call>>

SpecBrightest == InitBrightest /\ [][FindBrightestPointInHdri]_vars

---------------------------------------------------------------------------
(* DomeHdriGenerator.convert_hdri_uv_to_3d
   (dome_with_hdri_and_sun_generator.py:431-462)

   u and v are fractions whose denominator divides 8, so that the longitude
   is a multiple of pi / 4 and the latitude a multiple of pi / 8.  sin and
   cos are in units of 1 / TrigUnit; the coordinates returned are
   fixed-point lengths. *)

TrigUnit == 1000

\* math.sin(k * pi / 8) * TrigUnit, rounded
SinEighth(k) ==
    LET quarter == <<0, 383, 707, 924, 1000>>
        r == k % 16
    IN  IF r <= 4 THEN quarter[r + 1]
        ELSE IF r <= 8 THEN quarter[9 - r]
        ELSE IF r <= 12 THEN -quarter[r - 7]
        ELSE -quarter[17 - r]
\* math.cos(k * pi / 8) * TrigUnit
CosEighth(k) == SinEighth(k + 4)

\* the angle frac * pi as a number of eighths of pi
Eighths(frac) == CHOOSE k \in -16..16 : k * frac[2] = 8 * frac[1]

\* convert_hdri_uv_to_3d without the offset of radius / 10 on z (the
\* variant commented out at line 454)
convert_hdri_uv_to_3d_on_sphere(radius, uv_coord) ==
    LET u == uv_coord[1]
        v == uv_coord[2]
        longitude == Eighths(<<2 * (u[2] - 2 * u[1]), 2 * u[2]>>)
        latitude == Eighths(v)
        x == radius * SinEighth(latitude) * CosEighth(longitude)
        y == radius * SinEighth(latitude) * SinEighth(longitude)
        zz == radius * CosEighth(latitude)
    IN  <<RoundDiv(x * Unit, TrigUnit * TrigUnit),
          RoundDiv(y * Unit, TrigUnit * TrigUnit),
          Abs(RoundDiv(zz * Unit, TrigUnit))>>

convert_hdri_uv_to_3d(radius, uv_coord) ==
    LET u == uv_coord[1]
        v == uv_coord[2]
        \* longitude = (0.5 - u) * 2 * pi, latitude = v * pi (lines 443, 446)
        longitude == Eighths(<<2 * (u[2] - 2 * u[1]), 2 * u[2]>>)
        latitude == Eighths(v)
        x == radius * SinEighth(latitude) * CosEighth(longitude)
        y == radius * SinEighth(latitude) * SinEighth(longitude)
        zz == RoundDiv(radius * CosEighth(latitude) * Unit, TrigUnit)
              + RoundDiv(radius * Unit, 10)
    IN  <<RoundDiv(x * Unit, TrigUnit * TrigUnit),
          RoundDiv(y * Unit, TrigUnit * TrigUnit),
          IF zz < 0 THEN Abs(zz) ELSE zz>>

---------------------------------------------------------------------------
(* SpecUv: convert_hdri_uv_to_3d applied to a UV coordinate *)

\* the radius of the dome: the default of create() and the one of the
\* scene (rocky_river_terrain.py:151, 0.75 * 40)
Radii == {30, 100}
UvGrid == { <<<<a, 8>>, <<b, 8>>>> : a \in 0..8, b \in 0..8 }

InitUv ==
    /\ InitTerrain
    /\ InitLoop
    /\ InitWater
    /\ InitBezier
    /\ InitScene
    /\ calls = 0
    /\ last_call = "__init__"
    /\ InitReport
    /\ InitHost
    /\ InitAnim
    /\ InitDev
    /\ hdri_radius \in Radii
    /\ hdri_file = NoFile
    /\ hdri_image = NoImage
    /\ dome_object = TRUE
    /\ dome_colour = "none"
    /\ \E uv \in UvGrid : brightest = <<uv, <<1, 1>>>>
    /\ brightest_3d = NoResult
    /\ sun = NoSun
    /\ dome_pc = "convert_hdri_uv_to_3d"
    /\ dome_raised = "none"

ConvertHdriUvTo3d ==
    /\ dome_pc = "convert_hdri_uv_to_3d"
    /\ dome_raised = "none"
    /\ brightest_3d' = convert_hdri_uv_to_3d(hdri_radius, brightest[1])
    /\ dome_pc' = "add_sunlight_at_brightest_point"
    /\ UNCHANGED <<hdri_radius, hdri_file, hdri_image, dome_object,
                   dome_colour, brightest, sun, dome_raised>>
    /\ UNCHANGED <<terrain_vars, loop_vars, calls, last_call, water_vars,
                   bezier_vars, scene_vars, report_vars, host_vars, anim_vars, dev_call>>

SpecUv == InitUv /\ [][ConvertHdriUvTo3d]_vars

---------------------------------------------------------------------------
(* SpecDome: DomeHdriGenerator.create
   (dome_with_hdri_and_sun_generator.py:521-569), one action per call it
   makes *)

\* the file the environment holds at hdri_path: none, or an image whose
\* width - 1 and height - 1 divide 8 (the UV grid of convert_hdri_uv_to_3d)
DomeFiles ==
    {NoFile}
    \cup UNION { { Painted(w, h, block, NoStamp) :
                     block \in Stamps(w, h, 4, {BlockColour}) \cup {NoStamp} } :
                 w \in {5, 9}, h \in {5, 9} }

DomeStep(from, to) ==
    /\ dome_pc = from
    /\ dome_raised = "none"
    /\ dome_pc' = to

\* the steps of create() that need self.dome_object (lines 60-61, 235-236,
\* 255-256, 271-272)
NeedsDome(from, to) ==
    /\ dome_pc = from
    /\ dome_raised = "none"
    /\ IF dome_object
       THEN dome_pc' = to /\ UNCHANGED dome_raised
       ELSE dome_raised' = "RuntimeError" /\ UNCHANGED dome_pc

\* create(radius, hdri_path), lines 524-525
DomeCreate ==
    /\ DomeStep("create", "create_sphere")
    /\ hdri_radius' \in Radii
    /\ hdri_file' \in DomeFiles
    /\ UNCHANGED <<hdri_image, dome_object, dome_colour, brightest,
                   brightest_3d, sun, dome_raised>>
    /\ UNCHANGED <<terrain_vars, loop_vars, calls, last_call, water_vars,
                   bezier_vars, scene_vars, report_vars, host_vars, anim_vars, dev_call>>

\* create_sphere (lines 39-52)
DomeCreateSphere ==
    /\ DomeStep("create_sphere", "flatten_lower_vertices")
    /\ dome_object' = TRUE
    /\ UNCHANGED <<hdri_radius, hdri_file, hdri_image, dome_colour, brightest,
                   brightest_3d, sun, dome_raised>>
    /\ UNCHANGED <<terrain_vars, loop_vars, calls, last_call, water_vars,
                   bezier_vars, scene_vars, report_vars, host_vars, anim_vars, dev_call>>

\* flatten_lower_vertices, create_uv_map, add_modifiers_and_shading: they
\* change the dome's mesh and modifiers only
DomeShapeSteps ==
    /\ \/ NeedsDome("flatten_lower_vertices", "create_uv_map")
       \/ NeedsDome("create_uv_map", "add_modifiers_and_shading")
       \/ NeedsDome("add_modifiers_and_shading", "apply_hdri_to_dome")
    /\ UNCHANGED <<hdri_radius, hdri_file, hdri_image, dome_object,
                   dome_colour, brightest, brightest_3d, sun>>
    /\ UNCHANGED <<terrain_vars, loop_vars, calls, last_call, water_vars,
                   bezier_vars, scene_vars, report_vars, host_vars, anim_vars, dev_call>>

\* apply_hdri_to_dome (lines 268-349): the image if the path exists, the
\* fallback colour if not
DomeApplyHdriToDome ==
    /\ NeedsDome("apply_hdri_to_dome", "find_brightest_point_in_hdri")
    /\ IF ~dome_object
       THEN UNCHANGED <<hdri_image, dome_colour>>
       ELSE IF hdri_file # NoFile
       THEN hdri_image' = hdri_file /\ dome_colour' = "image"
       ELSE hdri_image' = NoImage /\ dome_colour' = "fallback"
    /\ UNCHANGED <<hdri_radius, hdri_file, dome_object, brightest,
                   brightest_3d, sun>>
    /\ UNCHANGED <<terrain_vars, loop_vars, calls, last_call, water_vars,
                   bezier_vars, scene_vars, report_vars, host_vars, anim_vars, dev_call>>

\* add_sunlight_at_brightest_point (lines 465-504)
DomeAddSunlight ==
    /\ DomeStep("add_sunlight_at_brightest_point", "return")
    /\ LET sun_height == RoundDiv(hdri_radius * Unit, 10)
       IN  sun' = [location |-> <<brightest_3d[1] + sun_height,
                                  brightest_3d[2] + sun_height,
                                  brightest_3d[3] + sun_height>>,
                   energy |-> 100 * hdri_radius]
    /\ UNCHANGED <<hdri_radius, hdri_file, hdri_image, dome_object,
                   dome_colour, brightest, brightest_3d, dome_raised>>
    /\ UNCHANGED <<terrain_vars, loop_vars, calls, last_call, water_vars,
                   bezier_vars, scene_vars, report_vars, host_vars, anim_vars, dev_call>>

\* return self.dome_object (line 569)
DomeReturn ==
    /\ DomeStep("return", "done")
    /\ UNCHANGED <<hdri_radius, hdri_file, hdri_image, dome_object,
                   dome_colour, brightest, brightest_3d, sun, dome_raised>>
    /\ UNCHANGED <<terrain_vars, loop_vars, calls, last_call, water_vars,
                   bezier_vars, scene_vars, report_vars, host_vars, anim_vars, dev_call>>

NextDome ==
    \/ DomeCreate
    \/ DomeCreateSphere
    \/ DomeShapeSteps
    \/ DomeApplyHdriToDome
    \/ FindBrightestPointInHdri
    \/ ConvertHdriUvTo3d
    \/ DomeAddSunlight
    \/ DomeReturn

SpecDome == Init /\ [][NextDome]_vars

---------------------------------------------------------------------------
(* The host's editing state across the handlers: the passes of
   RiverbedGenerator called in any order, and DomeHdriGenerator.punch
   (dome_with_hdri_and_sun_generator.py:95-146) *)

MaxHostCalls == 2

\* the falloff the scene is set to before the program runs
Falloffs == {"SMOOTH", "SPHERE"}

InitAnyFalloff ==
    /\ InitTerrain
    /\ InitLoop
    /\ InitWater
    /\ InitBezier
    /\ InitScene
    /\ InitHdri
    /\ InitReport
    /\ host_mode = "OBJECT"
    /\ proportional_edit_falloff \in Falloffs
    /\ InitAnim
    /\ InitDev
    /\ calls = 0
    /\ last_call = "__init__"

HostCreateTerrain ==
    /\ ~plane
    /\ pc = "idle"
    /\ create_terrain(SculptConfig)
    /\ last_call' = "create_terrain"
    /\ UNCHANGED <<loop_vars, calls, water_vars, bezier_vars, hdri_vars,
                   report_vars, host_vars, anim_vars, dev_call, scene_vars>>

\* select_riverbed_vertices, before create_terrain too
HostSelectRiverbedVertices ==
    /\ pc = "idle"
    /\ left_waterline = <<>>
    /\ \E curves \in SculptCurvePairs :
           select_riverbed_vertices(curves[1], curves[2])
    /\ last_call' = "select_riverbed_vertices"
    /\ UNCHANGED <<loop_vars, calls, water_vars, bezier_vars, hdri_vars,
                   depth_args, host_vars, anim_vars, dev_call, scene_vars>>

\* dig_riverbed(0.2, 0.5, 1.8), before any classification too
HostDigRiverbed ==
    /\ pc = "idle"
    /\ calls < MaxHostCalls
    /\ \E draws \in DrawVectors(Len(riverbed_indices), MinPitDepth, MaxPitDepth) :
           BeginPass("dig_riverbed", riverbed_indices, draws, PitRadius)

\* raise_riverbank(0.0, 0.2, 1.8), before any classification too
HostRaiseRiverbank ==
    /\ pc = "idle"
    /\ calls < MaxHostCalls
    /\ \E draws \in DrawVectors(Len(riverbank_indices), 0, MaxRiverbankHeight) :
           BeginPass("raise_riverbank", riverbank_indices, draws, PitRadius)

\* align_riverbank_edges(1.8); it needs self.plane (line 233)
HostAlignRiverbankEdges ==
    /\ pc = "idle"
    /\ plane
    /\ calls < MaxHostCalls
    /\ BeginPass("align_riverbank_edges", boundary_verts,
                 [i \in 1..Len(boundary_verts) |-> 0], PitRadius)

NextHost ==
    \/ HostCreateTerrain
    \/ HostSelectRiverbedVertices
    \/ HostDigRiverbed
    \/ HostRaiseRiverbank
    \/ HostAlignRiverbankEdges
    \/ DigStep
    \/ RaiseStep
    \/ AlignStep

SpecHost == InitAnyFalloff /\ [][NextHost]_vars

\* bm.verts[target_vertex_idx] (line 119) raises IndexError outside -n..n-1
InVertexRange(target_vertex_idx, n) ==
    target_vertex_idx < n /\ target_vertex_idx >= -n

\* the vertex number of bm.verts[target_vertex_idx]
VertexAt(target_vertex_idx, n) ==
    IF target_vertex_idx >= 0 THEN target_vertex_idx + 1
    ELSE n + target_vertex_idx + 1

\* punch(target_obj, target_vertex_idx, target_location, radius) with the
\* terrain grid as target_obj and a number as target_location
punch(target_vertex_idx, target_location, radius) ==
    LET n == Len(z)
        v == VertexAt(target_vertex_idx, n)
    IN  IF InVertexRange(target_vertex_idx, n)
        THEN \* lines 119-120 and 126-146
             /\ selected' = {v}
             /\ z' = translate(z, {v}, target_location, radius)
             /\ last_op' = [target |-> v, delta |-> target_location,
                            radius |-> radius]
             /\ host_mode' = "OBJECT"
             /\ message' = "none"
             /\ UNCHANGED proportional_edit_falloff
        ELSE \* lines 98-115 and 121-123: the return inside Edit Mode
             /\ selected' = {}
             /\ host_mode' = "EDIT"
             /\ proportional_edit_falloff' = "SMOOTH"
             /\ message' = "[ERROR] Vertex index is out of range."
             /\ UNCHANGED <<z, last_op>>

\* the punches on the sculpted terrain: its first vertex, its last vertex by
\* a negative index, and the index one past the end
PunchIndices == {0, -1, Len(z)}

Punch ==
    /\ pc = "idle"
    /\ plane
    /\ calls < MaxHostCalls
    /\ \E idx \in PunchIndices : punch(idx, ZUnit \div 2, PitRadius)
    /\ calls' = calls + 1
    /\ last_call' = "punch"
    /\ UNCHANGED <<plane, plane_width, plane_length, plane_subdivisions,
                   left_waterline, right_waterline, riverbed_indices,
                   riverbank_indices, plane_id, pc, todo, call, water_vars,
                   bezier_vars, hdri_vars, depth_args, anim_vars, dev_call,
                   scene_vars>>

NextPunch ==
    \/ HostCreateTerrain
    \/ HostSelectRiverbedVertices
    \/ HostDigRiverbed
    \/ HostRaiseRiverbank
    \/ HostAlignRiverbankEdges
    \/ DigStep
    \/ RaiseStep
    \/ AlignStep
    \/ Punch

SpecPunch == InitAnyFalloff /\ [][NextPunch]_vars

---------------------------------------------------------------------------
(* Animation.set_interpolation (chapter_06 animation.py:79-120).  A keyframe
   point is [co_x, interpolation]; co_x is the frame in halves of a frame *)

FrameUnit == 2

\* Python's round(co_x / FrameUnit): to the nearest integer, a half to the
\* even neighbour
PyRound(co_x) ==
    LET below == co_x \div FrameUnit
    IN  IF co_x % FrameUnit = 0 THEN below
        ELSE IF below % 2 = 0 THEN below ELSE below + 1

\* line 105
valid_types ==
    {"BEZIER", "LINEAR", "CONSTANT", "SINE", "QUAD", "QUART", "QUINT", "EXPO",
     "CIRC", "BACK", "BOUNCE", "ELASTIC"}

\* str.upper() on the interpolation types the callers pass
Upper(type) ==
    CASE type = "linear" -> "LINEAR"
      [] type = "constant" -> "CONSTANT"
      [] type = "cubic" -> "CUBIC"
      [] OTHER -> type

\* line 114 without the test for None: a call without keyframe_indices
\* reaches every keyframe point
IndexSelected(keyframe_indices, kp_idx) ==
    ~keyframe_indices.given \/ kp_idx \in keyframe_indices.indices

\* line 114: keyframe_indices is not None and kp_idx in keyframe_indices
IndexMatches(keyframe_indices, kp_idx) ==
    keyframe_indices.given /\ kp_idx \in keyframe_indices.indices

\* lines 103-115 on one keyframe point
set_point(kp, interpolation_type, keyframe_indices) ==
    IF Upper(interpolation_type) \notin valid_types THEN kp
    ELSE IF IndexMatches(keyframe_indices, PyRound(kp.co_x))
    THEN [kp EXCEPT !.interpolation = Upper(interpolation_type)]
    ELSE kp

\* lines 101-115: the F-curves after the call
set_interpolation(curves, data_path, interpolation_type, keyframe_indices) ==
    [f \in 1..Len(curves) |->
        IF curves[f].data_path = data_path
        THEN [curves[f] EXCEPT !.keyframe_points =
                 [i \in 1..Len(@) |->
                     set_point(@[i], interpolation_type, keyframe_indices)]]
        ELSE curves[f]]

\* the frames of the keyframe points of an F-curve: 1 and 2.5, 1.5 and 3.5,
\* 2 and 4
FramePairs == {<<2, 5>>, <<3, 7>>, <<4, 8>>}

\* an F-curve as keyframe_insert leaves it: BEZIER at every point
Fcurves ==
    { [data_path |-> d,
       keyframe_points |-> [i \in 1..2 |-> [co_x |-> fr[i],
                                            interpolation |-> "BEZIER"]]] :
      d \in {"location", "scale"}, fr \in FramePairs }

\* the actions of the object: none, or up to MaxFcurves F-curves
Actions == UNION { [1..n -> Fcurves] : n \in 0..MaxFcurves }

InitAnimation ==
    /\ InitTerrain
    /\ InitLoop
    /\ InitWater
    /\ InitBezier
    /\ InitScene
    /\ InitHdri
    /\ InitReport
    /\ InitHost
    /\ InitDev
    /\ calls = 0
    /\ last_call = "__init__"
    /\ fcurves \in Actions
    /\ anim_call = NoAnimCall

\* set_interpolation(data_path, interpolation_type, keyframe_indices); without
\* an action the call returns at line 94
SetInterpolation ==
    /\ anim_call = NoAnimCall
    /\ \E d \in {"location", "scale"},
          t \in {"LINEAR", "constant", "cubic"},
          k \in {NoIndices} \cup { [given |-> TRUE, indices |-> ix] :
                                      ix \in {{}, {2}, {1, 4}} } :
          /\ fcurves' = set_interpolation(fcurves, d, t, k)
          /\ anim_call' = [data_path |-> d, interpolation_type |-> t,
                           keyframe_indices |-> k, before |-> fcurves]
    /\ last_call' = "set_interpolation"
    /\ UNCHANGED <<terrain_vars, loop_vars, calls, water_vars, bezier_vars,
                   scene_vars, hdri_vars, report_vars, host_vars, dev_call>>

SpecAnimation == InitAnimation /\ [][SetInterpolation]_vars

---------------------------------------------------------------------------
(* The claims *)

\* how often v occurs in the list
Occurrences(list, v) == Cardinality({i \in 1..Len(list) : list[i] = v})

\* a classification of the current grid has run
Classified == plane /\ left_waterline # <<>> /\ right_waterline # <<>>

LeftX(v) == BoundaryX(left_waterline, VertY(v))
RightX(v) == BoundaryX(right_waterline, VertY(v))

\* C5: after one run of select_riverbed_vertices on a fresh generator every
\* vertex index is in at most one of riverbed_indices and riverbank_indices,
\* and every vertex whose x lies strictly between the left and the right
\* boundary x of the nearest-y lookup is in riverbed_indices
C5_AtMostOneAndBetweenIsBed ==
    Classified =>
        \A v \in 1..Len(z) :
            /\ Occurrences(riverbed_indices, v)
                 + Occurrences(riverbank_indices, v) <= 1
            /\ (LeftX(v) < VertX(v) /\ VertX(v) < RightX(v))
                 => Occurrences(riverbed_indices, v) = 1

C5_Witness ==
    /\ Classified
    /\ riverbed_indices # <<>>
    /\ riverbank_indices # <<>>
    /\ \E v \in 1..Len(z) : LeftX(v) < VertX(v) /\ VertX(v) < RightX(v)

\* C6: after any sequence of create_terrain and select_riverbed_vertices
\* calls the two index lists are disjoint, hold no index twice, and hold the
\* most recent classification of the current grid only
C6_ListsAreTheLastClassification ==
    /\ \A v \in 1..Len(z) :
            Occurrences(riverbed_indices, v)
            + Occurrences(riverbank_indices, v) <= 1
    /\ (Classified /\ last_call = "select_riverbed_vertices") =>
            /\ riverbed_indices = BedOf(left_waterline, right_waterline)
            /\ riverbank_indices = BankOf(left_waterline, right_waterline)

\* a vertex of the current grid on one of its two boundaries
OnBoundary(v) == VertX(v) = LeftX(v) \/ VertX(v) = RightX(v)

\* C7 as stated: a vertex whose x equals the left or the right boundary x is
\* in neither list
C7_BoundaryInNeither ==
    Classified =>
        \A v \in 1..Len(z) :
            OnBoundary(v) =>
                /\ Occurrences(riverbed_indices, v) = 0
                /\ Occurrences(riverbank_indices, v) = 0

\* C7 amended: a vertex whose x equals the left or the right boundary x is
\* in riverbank_indices and not in riverbed_indices
C7_BoundaryIsBank ==
    Classified =>
        \A v \in 1..Len(z) :
            OnBoundary(v) =>
                /\ Occurrences(riverbed_indices, v) = 0
                /\ Occurrences(riverbank_indices, v) = 1

C7_Witness ==
    /\ Classified
    /\ \E v \in 1..Len(z) : VertX(v) = LeftX(v)
    /\ \E v \in 1..Len(z) : VertX(v) = RightX(v)

\* a step in which delete_vertices_beyond_waterlines trimmed the water mesh
TrimStep ==
    /\ last_call' = "delete_vertices_beyond_waterlines"
    /\ water_plane
    /\ water_left_waterline' # <<>>
    /\ water_right_waterline' # <<>>

\* C8 as stated: delete_vertices_beyond_waterlines never increases the
\* vertex count and every vertex it leaves lies strictly between the two
\* boundary x of the nearest-y lookup
C8_SurvivorsStrictlyInside ==
    [][ (last_call' = "delete_vertices_beyond_waterlines" =>
            Len(water_verts') <= Len(water_verts))
        /\ (TrimStep =>
              \A i \in 1..Len(water_verts') :
                /\ BoundaryX(water_left_waterline', PY(water_verts'[i]))
                     < PX(water_verts'[i])
                /\ PX(water_verts'[i])
                     < BoundaryX(water_right_waterline', PY(water_verts'[i])))
      ]_vars

\* C8 amended: delete_vertices_beyond_waterlines never increases the vertex
\* count and every vertex a trim leaves lies between the two boundary x of
\* the nearest-y lookup, the boundaries included
C8_SurvivorsInside ==
    [][ (last_call' = "delete_vertices_beyond_waterlines" =>
            Len(water_verts') <= Len(water_verts))
        /\ (TrimStep =>
              \A i \in 1..Len(water_verts') :
                /\ BoundaryX(water_left_waterline', PY(water_verts'[i]))
                     <= PX(water_verts'[i])
                /\ PX(water_verts'[i])
                     <= BoundaryX(water_right_waterline', PY(water_verts'[i])))
      ]_vars

C8_Witness ==
    /\ last_call = "delete_vertices_beyond_waterlines"
    /\ water_plane
    /\ water_left_waterline # <<>>
    /\ 0 < Len(water_verts)
    /\ Len(water_verts) < GridCount(water_subdivisions)

\* the number of points of the list with a nonzero x
NonZeroCount(list) == Len(SelectSeq(list, LAMBDA p : PX(p) # 0))

\* C10: for a control set with at least 2 points of nonzero x,
\* interpolate_bezier returns one point per input point, in the same order
\* and with the same y-values
C10_BezierKeepsLengthAndY ==
    (bz_done /\ NonZeroCount(bz_input) >= 2) =>
        /\ Len(bz_output) = Len(bz_input)
        /\ \A i \in 1..Len(bz_input) : PY(bz_output[i]) = PY(bz_input[i])

C10_Witness ==
    /\ bz_done
    /\ NonZeroCount(bz_input) >= 2
    /\ NonZeroCount(bz_input) < Len(bz_input)
    /\ bz_output # bz_input

\* the pass of the given kind has returned
PassReturned(kind) == pc = "idle" /\ last_call = kind /\ call.kind = kind

\* C1: every translation a pass issues moves its target vertex by exactly
\* the requested delta and leaves every vertex at planar distance >= radius
\* from the target where it was
C1_TargetByDeltaFarUnchanged ==
    [][ Len(todo') < Len(todo) =>
          /\ z'[last_op'.target] = z[last_op'.target] + last_op'.delta
          /\ \A u \in 1..Len(z) :
                DistSq(u, last_op'.target) >= last_op'.radius * last_op'.radius
                => z'[u] = z[u]
      ]_vars

C1_Witness ==
    /\ last_op.delta # 0
    /\ \E u \in 1..Len(z) :
          /\ u # last_op.target
          /\ DistSq(u, last_op.target) < last_op.radius * last_op.radius
          /\ z[u] # 0
    /\ \E u \in 1..Len(z) :
          DistSq(u, last_op.target) >= last_op.radius * last_op.radius

\* C2: when align_riverbank_edges has returned every vertex of the outer
\* ring of the terrain is at elevation 0
C2_RingAtZeroAfterAlign ==
    PassReturned("align_riverbank_edges") =>
        \A i \in 1..Len(boundary_verts) : z[boundary_verts[i]] = 0

\* C3: an align_riverbank_edges that runs right after an
\* align_riverbank_edges of the same radius changes no elevation
C3_SecondAlignChangesNothing ==
    ( /\ PassReturned("align_riverbank_edges")
      /\ call.after = "align_riverbank_edges"
      /\ call.after_radius = call.radius )
    => z = call.start_z

\* what the pass that has returned leaves when its loop runs in the order
\* of the program
InProgramOrder ==
    RunPass(call.kind, call.start_z, call.targets, call.draws, call.radius, 1)

---------------------------------------------------------------------------
(* Claims about the curve fits on degenerate and deviating control sets *)

\* C11: when the control set has fewer than 2 points of nonzero x,
\* interpolate_bezier and interpolate_bspline both return the input points
\* unchanged: the same length, the same x and y at every position
C11_DegenerateInputReturned ==
    NonZeroCount(bz_input) < 2 =>
        /\ bz_done => bz_output = bz_input
        /\ bs_done => bs_output = bz_input

\* one point deviates, and a fit of it would have bent the curve
C11_Witness ==
    /\ bz_done
    /\ bs_done
    /\ NonZeroCount(bz_input) = 1
    /\ bz_output = bz_input
    /\ bs_output = bz_input
    /\ interpolate_bspline_always(bz_input) # bz_input

\* C12: for a control set with at least 2 points of nonzero x, the curve
\* interpolate_bspline returns has x = 0 at the first and at the last
\* original y
C12_EndpointsPinnedToZero ==
    (bs_done /\ NonZeroCount(bz_input) >= 2) =>
        /\ PX(bs_output[1]) = 0
        /\ PX(bs_output[Len(bs_output)]) = 0

\* C13: every x of the curve interpolate_bspline returns lies in
\* [-0.75 * width, 0.75 * width], and the curve has exactly one point for
\* each original y of the input, in the input's order
C13_ClippedOnePointPerY ==
    bs_done =>
        /\ Len(bs_output) = Len(bz_input)
        /\ \A i \in 1..Len(bz_input) :
              /\ PY(bs_output[i]) = PY(bz_input[i])
              /\ 4 * Abs(PX(bs_output[i])) <= 3 * CurveWidth * Unit

\* the interpolant left the range and was clipped
C13_Witness ==
    /\ bs_done
    /\ NonZeroCount(bz_input) >= 2
    /\ bs_output # interpolate_bspline_unclipped(bz_input)
    /\ \E i \in 1..Len(bs_output) :
          4 * Abs(PX(bs_output[i])) = 3 * CurveWidth * Unit

---------------------------------------------------------------------------
(* Claims about find_brightest_point_in_hdri *)

FoundBrightest == dome_pc = "convert_hdri_uv_to_3d" /\ brightest # NoResult

\* the interior pixels (u, v) of the loaded image and the mean of R + G + B
\* over the neighbourhood of each, in the top-left-origin buffer
Interior ==
    { c \in (0..(hdri_image.width - 1)) \X (0..(hdri_image.height - 1)) :
        /\ 2 <= c[1] /\ c[1] < hdri_image.width - 2
        /\ 2 <= c[2] /\ c[2] < hdri_image.height - 2 }
Mean(c) ==
    Neighbourhood(flipud(hdri_image.pixels), hdri_image.width,
                  hdri_image.height, c[1], c[2])
IsMaximum(c) == c \in Interior /\ \A d \in Interior : ~FracLess(Mean(c), Mean(d))
SomeMeanPositive == \E c \in Interior : Mean(c)[1] > 0

\* the returned UV is that of pixel c
ReturnedPixel(c) ==
    /\ FracEq(brightest[1][1], <<c[1], hdri_image.width - 1>>)
    /\ FracEq(brightest[1][2], <<c[2], hdri_image.height - 1>>)
ReturnedDefault ==
    /\ FracEq(brightest[1][1], <<1, 2>>)
    /\ FracEq(brightest[1][2], <<1, 2>>)
    /\ brightest[2][1] = 0

\* the image is black except for one 4 x 4 block of BlockColour that covers
\* the columns c[1]-2 .. c[1]+1 and the rows c[2]-2 .. c[2]+1
OnlyBlockCentredAt(c) ==
    hdri_image = Painted(hdri_image.width, hdri_image.height,
                         [u |-> c[1] - 2, v |-> c[2] - 2, side |-> 4,
                          colour |-> BlockColour], NoStamp)

\* C14 as stated: find_brightest_point_in_hdri returns the UV of an interior
\* pixel whose neighbourhood mean is the maximum over the interior pixels;
\* for a buffer that is zero except for one 4 x 4 block centred at an
\* interior pixel it returns the UV of that pixel
C14_ReturnsMaximumPixel ==
    FoundBrightest =>
        /\ \E c \in Interior : IsMaximum(c) /\ ReturnedPixel(c)
        /\ \A c \in Interior : OnlyBlockCentredAt(c) => ReturnedPixel(c)

\* C14, amended: when some interior pixel has a positive neighbourhood mean,
\* the method returns the UV of an interior pixel whose mean is the maximum,
\* together with that mean, and for a single bright block centred at an
\* interior pixel the UV of that pixel; when no mean is positive (a black
\* buffer, or no interior pixel) it returns the default UV (0.5, 0.5) with
\* brightness 0
C14_ReturnsMaximumPixelOrDefault ==
    FoundBrightest =>
        /\ SomeMeanPositive =>
              /\ \E c \in Interior :
                    /\ IsMaximum(c)
                    /\ ReturnedPixel(c)
                    /\ FracEq(brightest[2], Mean(c))
              /\ \A c \in Interior : OnlyBlockCentredAt(c) => ReturnedPixel(c)
        /\ ~SomeMeanPositive => ReturnedDefault

\* a single bright block away from the middle of the buffer was found
C14_Witness ==
    /\ FoundBrightest
    /\ \E c \in Interior :
          /\ OnlyBlockCentredAt(c)
          /\ ReturnedPixel(c)
          /\ ~ReturnedDefault
          /\ Cardinality(Interior) > 1

\* c comes before d in the raster scan of the top-left-origin buffer
ScannedBefore(c, d) == c[2] < d[2] \/ (c[2] = d[2] /\ c[1] < d[1])
FirstMaximum(c) ==
    IsMaximum(c) /\ \A d \in Interior : (IsMaximum(d) /\ d # c) => ScannedBefore(c, d)

\* C15 as stated: when several interior pixels share the maximum mean, the
\* method returns the one met first in raster scan order (smallest row, then
\* smallest column)
C15_FirstMaximumWins ==
    (FoundBrightest /\ Cardinality({c \in Interior : IsMaximum(c)}) > 1) =>
        \E c \in Interior : FirstMaximum(c) /\ ReturnedPixel(c)

\* C15, amended: when several interior pixels share a positive maximum
\* mean, the method returns the one met first in raster scan order; when
\* the shared maximum is not positive it returns the default UV (0.5, 0.5)
C15_FirstPositiveMaximumWins ==
    (FoundBrightest /\ Cardinality({c \in Interior : IsMaximum(c)}) > 1) =>
        IF SomeMeanPositive
        THEN \E c \in Interior : FirstMaximum(c) /\ ReturnedPixel(c)
        ELSE ReturnedDefault

\* a tie with a pixel later in the row and with a pixel of a later row was
\* decided
C15_Witness ==
    /\ FoundBrightest
    /\ SomeMeanPositive
    /\ \E c, d, e \in Interior :
          /\ FirstMaximum(c)
          /\ IsMaximum(d) /\ d[2] = c[2] /\ d[1] > c[1]
          /\ IsMaximum(e) /\ e[2] > c[2]
          /\ ReturnedPixel(c)
          /\ ~ReturnedPixel(d)
          /\ ~ReturnedPixel(e)

---------------------------------------------------------------------------
(* Claims about convert_hdri_uv_to_3d *)

Converted == dome_pc = "add_sunlight_at_brightest_point" /\ brightest_3d # NoResult
AtEquatorReference ==
    /\ hdri_radius = 100
    /\ FracEq(brightest[1][1], <<1, 2>>)
    /\ FracEq(brightest[1][2], <<1, 2>>)

\* C16 as stated: convert_hdri_uv_to_3d((0.5, 0.5)) with radius 100 returns
\* a point with z = 10 and x = y = 0
C16_EquatorPointOnAxis ==
    (Converted /\ AtEquatorReference) =>
        brightest_3d = <<0, 0, 10 * Unit>>

\* C16, amended: convert_hdri_uv_to_3d((0.5, 0.5)) with radius 100 returns
\* the point with x = 100, y = 0 and z = 10
C16_EquatorPointAtRadius ==
    (Converted /\ AtEquatorReference) =>
        brightest_3d = <<100 * Unit, 0, 10 * Unit>>

C16_Witness ==
    /\ Converted
    /\ AtEquatorReference
    /\ brightest_3d[1] = hdri_radius * Unit
    /\ brightest_3d[3] = 10 * Unit

---------------------------------------------------------------------------
(* Claims about DomeHdriGenerator.create *)

\* C17 as stated: when the HDRI path does not exist, create() does not
\* abort: no exception leaves it, and when it has returned the fallback
\* colour is applied and a light is placed
C17_CreateCompletesWithoutImage ==
    (dome_pc # "create" /\ hdri_file = NoFile) =>
        /\ dome_raised = "none"
        /\ dome_pc = "done" => (dome_colour = "fallback" /\ sun # NoSun)


\* C18: a dig_riverbed configured with min_pit_depth > max_pit_depth is
\* rejected before any vertex of the terrain is displaced: every vertex of
\* such a terrain is still at elevation 0
C18_ReversedDepthsRejected ==
    depth_args.min > depth_args.max => \A v \in DOMAIN z : z[v] = 0


\* the last call was a select_riverbed_vertices whose classification of the
\* current grid found no vertex between the two boundaries
NoBedQualifies ==
    /\ Classified
    /\ last_call = "select_riverbed_vertices"
    /\ BedOf(left_waterline, right_waterline) = <<>>

\* the warning of line 113 was the last thing reported
WarningReported ==
    message = "[WARNING] No vertices were selected for the riverbed."

\* C19: when no vertex qualifies as bed, select_riverbed_vertices reports
\* the warning and returns with riverbed_indices empty and every vertex of
\* the grid in riverbank_indices
C19_NoBedIsAWarning ==
    NoBedQualifies =>
        /\ WarningReported
        /\ riverbed_indices = <<>>
        /\ \A v \in 1..Len(z) : Occurrences(riverbank_indices, v) >= 1


---------------------------------------------------------------------------
(* Claims about create_riverbed *)

\* create_riverbed has made its five calls
RiverbedCreated == last_call = "align_riverbank_edges" /\ pc = "idle"

\* the lowest elevation over the vertices of the index list is at most level
MinAtMost(indices, level) ==
    \E i \in 1..Len(indices) : z[indices[i]] <= level

\* the highest elevation over the vertices of the index list is at least level
MaxAtLeast(indices, level) ==
    \E i \in 1..Len(indices) : z[indices[i]] >= level

---------------------------------------------------------------------------
(* Claims about create_deviations *)

\* create_deviations has returned
DeviationsCreated == last_call = "create_deviations"

\* the positions of the returned list that carry a nonzero x
Deviating == {i \in 1..Len(dev_call.points) : PX(dev_call.points[i]) # 0}

\* x lies in [-0.25 * width, -0.1 * width] or in [0.1 * width, 0.25 * width]
InDeviationRange(x) ==
    \/ -((CurveWidth * Unit) \div 4) <= x /\ x <= -((CurveWidth * Unit) \div 10)
    \/ (CurveWidth * Unit) \div 10 <= x /\ x <= (CurveWidth * Unit) \div 4

\* the y of point i is -length/2 + (i - 1) * length / (m - 1), to the
\* nearest fixed-point length
EvenlySpaced(points) ==
    LET m == Len(points)
    IN  \A i \in 1..m :
            2 * Abs((PY(points[i]) + (CurveLength * Unit) \div 2) * (m - 1)
                    - (i - 1) * CurveLength * Unit) <= m - 1

\* C21: create_deviations(n) returns subdivisions[1] + 2 points whose
\* y-values increase strictly, evenly spaced from -length/2 to +length/2; at
\* most min(n, number of points) positions carry a nonzero x, every nonzero
\* x lies in one of the two ranges, and every other x is 0
C21_DeviationsWellFormed ==
    DeviationsCreated =>
        LET points == dev_call.points
            m == Len(points)
            n == dev_call.num_deviations
        IN  /\ m = dev_call.subdivisions_y + 2
            /\ PY(points[1]) = -((CurveLength * Unit) \div 2)
            /\ PY(points[m]) = (CurveLength * Unit) \div 2
            /\ \A i \in 1..(m - 1) : PY(points[i]) < PY(points[i + 1])
            /\ EvenlySpaced(points)
            /\ Cardinality(Deviating) <= (IF n < m THEN n ELSE m)
            /\ \A i \in Deviating : InDeviationRange(PX(points[i]))

\* a call that asked for more deviations than there are points, and a list
\* in which every point deviates
C21_Witness ==
    /\ DeviationsCreated
    /\ dev_call.num_deviations > Len(dev_call.points)
    /\ Cardinality(Deviating) = Len(dev_call.points)
    /\ \E i, j \in Deviating :
           PX(dev_call.points[i]) < 0 /\ PX(dev_call.points[j]) > 0

---------------------------------------------------------------------------
(* Claims about the waterlines and the terrain they are built for *)

\* the waterline has one sample per row of a curve of the terrain's
\* y-subdivisions and runs over the whole length of the terrain
MatchesTerrain(waterline) ==
    /\ Len(waterline) = plane_subdivisions[2] + 2
    /\ PY(waterline[1]) = -((plane_length * Unit) \div 2)
    /\ PY(waterline[Len(waterline)]) = (plane_length * Unit) \div 2

\* C22: the two waterlines select_riverbed_vertices builds have (terrain
\* y-subdivision count + 2) samples each and span the terrain's length from
\* -plane_length/2 to +plane_length/2, whatever create_terrain was given
C22_WaterlinesMatchTerrain ==
    (Classified /\ last_call = "select_riverbed_vertices") =>
        MatchesTerrain(left_waterline) /\ MatchesTerrain(right_waterline)

---------------------------------------------------------------------------
(* Claims about what the handlers leave alone *)

\* the step is inside a sculpting pass: its call, or an iteration of its loop
SculptingStep == pc # "idle" \/ pc' # "idle"

\* the step is a call of select_riverbed_vertices
SelectStep ==
    /\ pc = "idle" /\ pc' = "idle"
    /\ last_call' = "select_riverbed_vertices"

\* the terrain keeps its grid object, its vertex count and the extents and
\* subdivisions that give every vertex index its x and y
SameVertices ==
    /\ plane' = plane
    /\ plane_id' = plane_id
    /\ Len(z') = Len(z)
    /\ plane_width' = plane_width
    /\ plane_length' = plane_length
    /\ plane_subdivisions' = plane_subdivisions

---------------------------------------------------------------------------
(* Claims about Animation.set_interpolation *)

\* set_interpolation has returned from a call with a valid interpolation type
ValidInterpolationSet ==
    /\ last_call = "set_interpolation"
    /\ Upper(anim_call.interpolation_type) \in valid_types

\* C24: set_interpolation with a valid interpolation type and
\* keyframe_indices = None sets the interpolation on every keyframe point
\* of every F-curve whose data_path matches; with a list it sets it on the
\* keyframes whose rounded frame number is in the list and leaves the others
C24_InterpolationSetWhereAsked ==
    ValidInterpolationSet =>
        \A f \in 1..Len(fcurves) :
            \A i \in 1..Len(fcurves[f].keyframe_points) :
                LET old == anim_call.before[f].keyframe_points[i]
                    new == fcurves[f].keyframe_points[i]
                    asked ==
                        /\ fcurves[f].data_path = anim_call.data_path
                        /\ IndexSelected(anim_call.keyframe_indices,
                                         PyRound(old.co_x))
                IN  /\ new.co_x = old.co_x
                    /\ new.interpolation =
                          IF asked THEN Upper(anim_call.interpolation_type)
                          ELSE old.interpolation


\* a handler that returns in the step it is called in
ReturnsAtOnce(kind) ==
    calls' = calls + 1 /\ last_call' = kind /\ pc' = "idle"

\* C25: every handler that enters Edit Mode and forces the SMOOTH falloff
\* (the three passes once past their early return, and punch) returns with
\* the host in Object Mode and the falloff it found when it was called
C25_EditSessionsClosed ==
    [][/\ (ReturnsAtOnce("punch") \/ ReturnsAtOnce("align_riverbank_edges"))
          => /\ host_mode' = "OBJECT"
             /\ proportional_edit_falloff' = proportional_edit_falloff
       /\ (pc # "idle" /\ pc' = "idle")
          => /\ host_mode' = "OBJECT"
             /\ proportional_edit_falloff' = call.original_falloff]_vars


\* the step is a call of the pass kind
PassCalled(kind) == calls' = calls + 1 /\ last_call' = kind

\* the step changes the elevation of some vertex of the terrain
Displaces == plane /\ z' # z

\* C26: select_riverbed_vertices before create_terrain leaves both index
\* lists empty; dig_riverbed on an empty riverbed_indices and raise_riverbank
\* on an empty riverbank_indices return with the host's mode, the falloff,
\* the selection and every elevation as they were; so no step of dig_riverbed
\* or raise_riverbank moves a vertex while its index list is empty
C26_OutOfOrderCallsAreNoOps ==
    [][/\ (~plane /\ last_call' = "select_riverbed_vertices")
          => (riverbed_indices' = <<>> /\ riverbank_indices' = <<>>)
       /\ (PassCalled("dig_riverbed") /\ riverbed_indices = <<>>)
          => (pc' = "idle" /\ UNCHANGED <<terrain_vars, host_vars, last_op>>)
       /\ (PassCalled("raise_riverbank") /\ riverbank_indices = <<>>)
          => (pc' = "idle" /\ UNCHANGED <<terrain_vars, host_vars, last_op>>)
       /\ (Displaces /\ call'.kind = "dig_riverbed")
          => riverbed_indices # <<>>
       /\ (Displaces /\ call'.kind = "raise_riverbank")
          => riverbank_indices # <<>>]_vars

\* dig_riverbed has returned at once on a terrain that was created but not
\* classified, under a falloff other than SMOOTH
C26_Witness ==
    /\ plane
    /\ left_waterline = <<>>
    /\ last_call = "dig_riverbed"
    /\ message = "[ERROR] No riverbed vertices selected."
    /\ pc = "idle"
    /\ host_mode = "OBJECT"
    /\ proportional_edit_falloff = "SPHERE"


\* the terrain is classified and at least as wide as the curve generator
WideClassified ==
    /\ plane
    /\ left_waterline # <<>>
    /\ right_waterline # <<>>
    /\ plane_width >= CurveWidth

PicksFirstNearest(path, y) ==
    LET i == ArgMinY(path, y)
    IN  \A j \in 1..Len(path) :
            /\ Abs(PY(path[i]) - y) <= Abs(PY(path[j]) - y)
            /\ j < i => Abs(PY(path[i]) - y) < Abs(PY(path[j]) - y)

\* two samples of path are equally near to y and no sample is nearer
TiedAt(path, y) ==
    \E i, j \in 1..Len(path) :
        /\ i # j
        /\ Abs(PY(path[i]) - y) = Abs(PY(path[j]) - y)
        /\ \A k \in 1..Len(path) : Abs(PY(path[i]) - y) <= Abs(PY(path[k]) - y)

\* the water plane has the terrain's grid and was trimmed to the terrain's
\* waterlines
TrimmedLikeTerrain ==
    /\ plane
    /\ water_plane
    /\ left_waterline # <<>>
    /\ water_left_waterline = left_waterline
    /\ water_right_waterline = right_waterline
    /\ water_width = plane_width
    /\ water_length = plane_length
    /\ water_subdivisions = plane_subdivisions
    /\ last_call = "delete_vertices_beyond_waterlines"

TrimRejected ==
    /\ last_call' = "delete_vertices_beyond_waterlines"
    /\ message' = "[ERROR] left_waterline and right_waterline cannot be empty list."

\* C29: a call of delete_vertices_beyond_waterlines with an empty waterline
\* reports the error, removes no vertex of the water plane and leaves the
\* stored waterlines as they were
C29_EmptyWaterlinesRemoveNothing ==
    [][TrimRejected
       => UNCHANGED <<water_verts, water_left_waterline,
                      water_right_waterline>>]_vars


\* the fraction f lies in [0, 1]
InUnitInterval(f) == 0 <= f[1] /\ f[1] <= f[2]

\* some pixel of the loaded image has a positive channel
SomePixelBright ==
    \E row \in 1..hdri_image.height, col \in 1..hdri_image.width :
        \E ch \in 1..3 : hdri_image.pixels[row][col][ch] > 0

\* C30: find_brightest_point_in_hdri returns the default ((0.5, 0.5), 0)
\* exactly when no interior pixel has a positive neighbourhood mean, which
\* includes every image narrower or lower than 5 pixels; otherwise the
\* brightness it returns is positive and u and v lie in [0, 1]
C30_DefaultExactlyWithoutPositiveMean ==
    FoundBrightest =>
        /\ ReturnedDefault <=> ~SomeMeanPositive
        /\ (hdri_image.width < 5 \/ hdri_image.height < 5) => ReturnedDefault
        /\ SomeMeanPositive =>
              /\ brightest[2][1] > 0 /\ brightest[2][2] > 0
              /\ InUnitInterval(brightest[1][1])
              /\ InUnitInterval(brightest[1][2])

\* an image with bright pixels but no interior pixel got the default
C30_Witness ==
    /\ FoundBrightest
    /\ hdri_image.width < 5
    /\ hdri_image.height >= 5
    /\ SomePixelBright
    /\ ReturnedDefault

====
